---------------------------- MODULE Spec2Model ----------------------------
(***************************************************************************)
(* The code judge of server/routes.ts: runAgainstTestCases and the         *)
(* functions it drives (literal parsing, signature resolution, argument    *)
(* binding, canonical normalisation, the two language runners and the      *)
(* execution-only paths).                                                  *)
(*                                                                         *)
(* Text (fixture inputs, outputs, canonical forms, error messages) is a    *)
(* TLA+ string.  A JavaScript value is a tagged record [t, v].  Submitted  *)
(* code is a record of what its text declares and of what it does when it  *)
(* is loaded and called.                                                   *)
(***************************************************************************)
EXTENDS Integers, Sequences, FiniteSets, TLC

(***************************************************************************)
(* JavaScript values                                                       *)
(***************************************************************************)
Undefined == [t |-> "undefined", v |-> 0]
Null == [t |-> "null", v |-> 0]
Bool(b) == [t |-> "boolean", v |-> b]
Num(n) == [t |-> "number", v |-> n]
Str(s) == [t |-> "string", v |-> s]
\* an array: its elements in order
Arr(items) == [t |-> "array", v |-> items]
\* a plain object: its own properties <<key, value>> in property order
Obj(props) == [t |-> "object", v |-> props]

\* a thrown value: isError is `error instanceof Error` as the host sees it
\* (an error created inside a vm context belongs to that context's realm)
Thrown(isError, message) == [isError |-> isError, message |-> message]

(***************************************************************************)
(* Characters                                                              *)
(***************************************************************************)
\* Body applied to the value of v, which is computed once
With(v, Body(_)) == CHOOSE y \in {Body(r) : r \in {v}} : TRUE

Ch(s, i) == IF i >= 1 /\ i <= Len(s) THEN SubSeq(s, i, i) ELSE ""

Digits == "0123456789"
Upper == "ABCDEFGHIJKLMNOPQRSTUVWXYZ"
Lower == "abcdefghijklmnopqrstuvwxyz"
\* the characters of object keys, in code-unit order
CodeUnits == "$" \o Digits \o Upper \o "_" \o Lower

RECURSIVE IndexIn(_, _, _)
IndexIn(c, s, i) ==
    IF i > Len(s) THEN 0
    ELSE IF Ch(s, i) = c THEN i
    ELSE IndexIn(c, s, i + 1)

CharCode(c) == IndexIn(c, CodeUnits, 1)
CharsOf(s) == {Ch(s, i) : i \in 1..Len(s)}
DigitChars == CharsOf(Digits)
\* [A-Za-z_$]
IdentStartChars == CharsOf(Upper) \cup CharsOf(Lower) \cup {"_", "$"}
\* [A-Za-z0-9_$]
IdentPartChars == IdentStartChars \cup DigitChars

IsDigit(c) == c \in DigitChars
IsSpace(c) == c = " "
IsIdentStart(c) == c \in IdentStartChars
IsIdentPart(c) == c \in IdentPartChars

\* s < t in the order of the default comparison of Array.prototype.sort
RECURSIVE StrLessFrom(_, _, _)
StrLessFrom(s, t, i) ==
    IF i > Len(t) THEN FALSE
    ELSE IF i > Len(s) THEN TRUE
    ELSE IF Ch(s, i) = Ch(t, i) THEN StrLessFrom(s, t, i + 1)
    ELSE CharCode(Ch(s, i)) < CharCode(Ch(t, i))

StrLess(s, t) == StrLessFrom(s, t, 1)

RECURSIVE SkipSpace(_, _)
SkipSpace(s, i) == IF IsSpace(Ch(s, i)) THEN SkipSpace(s, i + 1) ELSE i

\* the first index at or after i that does not continue an identifier
RECURSIVE IdentEnd(_, _)
IdentEnd(s, i) == IF IsIdentPart(Ch(s, i)) THEN IdentEnd(s, i + 1) ELSE i

RECURSIVE DigitsEnd(_, _)
DigitsEnd(s, i) == IF IsDigit(Ch(s, i)) THEN DigitsEnd(s, i + 1) ELSE i

RECURSIVE DigitsValue(_, _, _, _)
DigitsValue(s, i, j, acc) ==
    IF i >= j THEN acc
    ELSE DigitsValue(s, i + 1, j, acc * 10 + (IndexIn(Ch(s, i), Digits, 1) - 1))

\* the index of the quote closing a string opened with quote q, 0 if none
RECURSIVE QuoteEnd(_, _, _)
QuoteEnd(s, i, q) ==
    IF i > Len(s) THEN 0
    ELSE IF Ch(s, i) = q THEN i
    ELSE QuoteEnd(s, i + 1, q)


(***************************************************************************)
(* Evaluation of fixture text by vm.runInNewContext: the literal grammar   *)
(* of the problem fixtures (numbers, strings, true, false, null,           *)
(* undefined, arrays, objects, references to undeclared names).            *)
(***************************************************************************)
SyntaxError == Thrown(TRUE, "Invalid or unexpected token")
\* thrown by vm when a script runs longer than its timeout of 1000 ms
TimedOut == Thrown(TRUE, "Script execution timed out after 1000ms")
\* an expression whose evaluation does not end
LoopingLiteral == "(() => { for (;;); })()"
\* raised inside the new context, so it is no instance of the host's Error
ReferenceError(name) == Thrown(FALSE, name \o " is not defined")

Parsed(v, next) == [ok |-> TRUE, v |-> v, next |-> next, err |-> Thrown(TRUE, "")]
Failed(err) == [ok |-> FALSE, v |-> Undefined, next |-> 0, err |-> err]
\* a reference to a name, resolved when the parsed text is evaluated
Ref(name) == [t |-> "ref", v |-> name]

HasKey(props, k) == \E i \in 1..Len(props) : props[i][1] = k

\* obj[k] = v: an existing key keeps its place in the property order
SetProp(props, k, val) ==
    IF HasKey(props, k)
    THEN [i \in 1..Len(props) |-> IF props[i][1] = k THEN <<k, val>> ELSE props[i]]
    ELSE Append(props, <<k, val>>)

GetProp(props, k) ==
    IF HasKey(props, k)
    THEN props[CHOOSE i \in 1..Len(props) : props[i][1] = k][2]
    ELSE Undefined

Keyword(word) ==
    CASE word = "true" -> Bool(TRUE)
      [] word = "false" -> Bool(FALSE)
      [] word = "null" -> Null
      [] word = "undefined" -> Undefined
      [] OTHER -> Ref(word)

RECURSIVE ParseValue(_, _)
RECURSIVE ParseItems(_, _, _)
RECURSIVE ParseProps(_, _, _)

ParseQuoted(s, i0, c) ==
    With(QuoteEnd(s, i0 + 1, c), LAMBDA e :
        IF e = 0 THEN Failed(SyntaxError)
        ELSE Parsed(Str(SubSeq(s, i0 + 1, e - 1)), e + 1))

ParseValue(s, i) ==
    With(SkipSpace(s, i), LAMBDA i0 :
    With(Ch(s, i0), LAMBDA c :
        IF c = "[" THEN ParseItems(s, i0 + 1, <<>>)
        ELSE IF c = "{" THEN ParseProps(s, i0 + 1, <<>>)
        ELSE IF c = "\"" \/ c = "'" THEN ParseQuoted(s, i0, c)
        ELSE IF IsDigit(c)
        THEN With(DigitsEnd(s, i0), LAMBDA e : Parsed(Num(DigitsValue(s, i0, e, 0)), e))
        ELSE IF c = "-" /\ IsDigit(Ch(s, i0 + 1))
        THEN With(DigitsEnd(s, i0 + 1), LAMBDA e :
                 Parsed(Num(0 - DigitsValue(s, i0 + 1, e, 0)), e))
        ELSE IF IsIdentStart(c)
        THEN With(IdentEnd(s, i0), LAMBDA e : Parsed(Keyword(SubSeq(s, i0, e - 1)), e))
        ELSE Failed(SyntaxError)))

ParseItems(s, i, acc) ==
    With(SkipSpace(s, i), LAMBDA i0 :
        IF Ch(s, i0) = "]" THEN Parsed(Arr(acc), i0 + 1)
        ELSE With(ParseValue(s, i0), LAMBDA r :
             With(SkipSpace(s, r.next), LAMBDA j :
                 IF ~r.ok THEN r
                 ELSE IF Ch(s, j) = "," THEN ParseItems(s, j + 1, Append(acc, r.v))
                 ELSE IF Ch(s, j) = "]" THEN Parsed(Arr(Append(acc, r.v)), j + 1)
                 ELSE Failed(SyntaxError))))

\* the key at i0, quoted or bare, and the index after it; next = 0 if none
ParseKey(s, i0) ==
    With(Ch(s, i0), LAMBDA c :
        IF c = "\"" \/ c = "'"
        THEN With(QuoteEnd(s, i0 + 1, c), LAMBDA e :
                 IF e = 0 THEN [key |-> "", next |-> 0]
                 ELSE [key |-> SubSeq(s, i0 + 1, e - 1), next |-> e + 1])
        ELSE IF IsIdentPart(c)
        THEN With(IdentEnd(s, i0), LAMBDA e : [key |-> SubSeq(s, i0, e - 1), next |-> e])
        ELSE [key |-> "", next |-> 0])

ParseProps(s, i, acc) ==
    With(SkipSpace(s, i), LAMBDA i0 :
        IF Ch(s, i0) = "}" THEN Parsed(Obj(acc), i0 + 1)
        ELSE With(ParseKey(s, i0), LAMBDA k :
             With(SkipSpace(s, k.next), LAMBDA colon :
                 IF k.next = 0 \/ Ch(s, colon) # ":" THEN Failed(SyntaxError)
                 ELSE With(ParseValue(s, colon + 1), LAMBDA r :
                      With(SkipSpace(s, r.next), LAMBDA j :
                          IF ~r.ok THEN r
                          ELSE IF Ch(s, j) = ","
                          THEN ParseProps(s, j + 1, SetProp(acc, k.key, r.v))
                          ELSE IF Ch(s, j) = "}"
                          THEN Parsed(Obj(SetProp(acc, k.key, r.v)), j + 1)
                          ELSE Failed(SyntaxError))))))

\* the first unresolved reference in a parsed value, "" if none
RECURSIVE FirstRef(_)
RECURSIVE FirstRefIn(_, _)
FirstRef(val) ==
    CASE val.t = "ref" -> val.v
      [] val.t = "array" -> FirstRefIn(val.v, 1)
      [] val.t = "object" -> FirstRefIn([k \in 1..Len(val.v) |-> val.v[k][2]], 1)
      [] OTHER -> ""

FirstRefIn(items, k) ==
    IF k > Len(items) THEN ""
    ELSE With(FirstRef(items[k]), LAMBDA ref :
             IF ref # "" THEN ref ELSE FirstRefIn(items, k + 1))

\* the outcome of running parsed text: a reference to an undeclared name throws
Evaluated(r) ==
    IF ~r.ok THEN r
    ELSE With(FirstRef(r.v), LAMBDA ref : IF ref # "" THEN Failed(ReferenceError(ref)) ELSE r)

\* the value of `(expression)`
parseLiteral(expression) ==
    With(ParseValue(expression, 1), LAMBDA r :
        IF expression = LoopingLiteral THEN Failed(TimedOut)
        ELSE IF r.ok /\ SkipSpace(expression, r.next) # Len(expression) + 1
        THEN Failed(SyntaxError)
        ELSE Evaluated(r))

(***************************************************************************)
(* parseAssignmentOrder: the names matched by assignmentRegex (an          *)
(* identifier, optional white space, "="), first-seen order, no duplicates *)
(***************************************************************************)
Includes(seq, x) == \E i \in 1..Len(seq) : seq[i] = x

RECURSIVE AssignmentScan(_, _, _)
AssignmentScan(input, i, names) ==
    IF i > Len(input) THEN names
    ELSE IF ~IsIdentStart(Ch(input, i)) THEN AssignmentScan(input, i + 1, names)
    ELSE With(IdentEnd(input, i), LAMBDA e :
         With(SkipSpace(input, e), LAMBDA q :
         With(SubSeq(input, i, e - 1), LAMBDA name :
             IF Ch(input, q) # "=" THEN AssignmentScan(input, i + 1, names)
             ELSE AssignmentScan(input, q + 1,
                                 IF Includes(names, name) THEN names
                                 ELSE Append(names, name)))))

parseAssignmentOrder(input) == AssignmentScan(input, 1, <<>>)

(***************************************************************************)
(* parseAssignments: the script                                            *)
(*     let n1; let n2; ...; <input>; return { n1, n2, ... }                *)
(* where <input> is a comma-separated list of assignments and values.      *)
(***************************************************************************)
\* the name assigned at i0 and the index after its "="; next = 0 if the text
\* at i0 is no assignment
AssignmentAt(input, i0) ==
    With(IdentEnd(input, i0), LAMBDA e :
    With(SkipSpace(input, e), LAMBDA q :
        IF IsIdentStart(Ch(input, i0)) /\ Ch(input, q) = "=" /\ Ch(input, q + 1) # "="
        THEN [name |-> SubSeq(input, i0, e - 1), next |-> q + 1]
        ELSE [name |-> "", next |-> 0]))

RECURSIVE RunAssignments(_, _, _)
RunAssignments(input, i, env) ==
    With(SkipSpace(input, i), LAMBDA i0 :
    With(AssignmentAt(input, i0), LAMBDA a :
    With(ParseValue(input, IF a.next > 0 THEN a.next ELSE i0), LAMBDA r :
    With(SkipSpace(input, r.next), LAMBDA j :
    With(IF a.next > 0 /\ r.ok THEN SetProp(env, a.name, r.v) ELSE env, LAMBDA env2 :
        IF ~r.ok THEN r
        ELSE IF Ch(input, j) = "," THEN RunAssignments(input, j + 1, env2)
        ELSE IF j = Len(input) + 1 THEN Parsed(Obj(env2), j)
        ELSE Failed(SyntaxError))))))

ReturnShape(orderedNames, env) ==
    With(FirstRefIn([k \in 1..Len(env) |-> env[k][2]], 1), LAMBDA ref :
        IF ref # "" THEN Failed(ReferenceError(ref))
        ELSE Parsed(Obj([k \in 1..Len(orderedNames) |->
                            <<orderedNames[k], GetProp(env, orderedNames[k])>>]), 0))

parseAssignments(input) ==
    With(parseAssignmentOrder(input), LAMBDA orderedNames :
        IF Len(orderedNames) = 0 THEN Parsed(Obj(<<>>), 0)
        ELSE With(RunAssignments(input, 1, <<>>), LAMBDA r :
                 IF ~r.ok THEN r ELSE ReturnShape(orderedNames, r.v.v)))

(***************************************************************************)
(* Canonical normalisation                                                 *)
(***************************************************************************)
\* s with x put before the first element that x is less than
RECURSIVE InsertSorted(_, _)
InsertSorted(sorted, x) ==
    IF Len(sorted) = 0 THEN <<x>>
    ELSE IF StrLess(x, Head(sorted)) THEN <<x>> \o sorted
    ELSE <<Head(sorted)>> \o InsertSorted(Tail(sorted), x)

\* a variant that turns the keys round
SortStrings_Reversed(keys) == [i \in 1..Len(keys) |-> keys[Len(keys) + 1 - i]]

\* Array.prototype.sort on strings
RECURSIVE SortStrings(_)
SortStrings(keys) ==
    IF Len(keys) = 0 THEN <<>>
    ELSE InsertSorted(SortStrings(SubSeq(keys, 1, Len(keys) - 1)), keys[Len(keys)])

ObjectKeys(props) == [i \in 1..Len(props) |-> props[i][1]]

RECURSIVE normalizeValue(_)
normalizeValue(value) ==
    IF value.t = "array"
    THEN Arr([i \in 1..Len(value.v) |-> normalizeValue(value.v[i])])
    ELSE IF value.t = "object"
    THEN LET keys == SortStrings(ObjectKeys(value.v))
         IN  Obj([i \in 1..Len(keys) |-> <<keys[i], normalizeValue(GetProp(value.v, keys[i]))>>])
    ELSE value

\* JSON.stringify.  The result undefined (of the value undefined) is written
\* "undefined": no JSON text is that word.
RECURSIVE JSONstringify(_)
RECURSIVE JoinItems(_, _)
RECURSIVE JoinProps(_, _, _)
JSONstringify(value) ==
    CASE value.t = "undefined" -> "undefined"
      [] value.t = "null" -> "null"
      [] value.t = "boolean" -> IF value.v THEN "true" ELSE "false"
      [] value.t = "number" -> ToString(value.v)
      [] value.t = "string" -> "\"" \o value.v \o "\""
      [] value.t = "array" -> "[" \o JoinItems(value.v, 1) \o "]"
      [] value.t = "object" -> "{" \o JoinProps(value.v, 1, TRUE) \o "}"

\* an undefined element of an array is written null
JoinItems(items, k) ==
    IF k > Len(items) THEN ""
    ELSE (IF k > 1 THEN "," ELSE "")
         \o (IF items[k].t = "undefined" THEN "null" ELSE JSONstringify(items[k]))
         \o JoinItems(items, k + 1)

\* a property whose value is undefined is left out
JoinProps(props, k, first) ==
    IF k > Len(props) THEN ""
    ELSE IF props[k][2].t = "undefined" THEN JoinProps(props, k + 1, first)
    ELSE (IF first THEN "" ELSE ",")
         \o "\"" \o props[k][1] \o "\":" \o JSONstringify(props[k][2])
         \o JoinProps(props, k + 1, FALSE)

normalize(value) == JSONstringify(normalizeValue(value))

(***************************************************************************)
(* buildCallArgs                                                           *)
(***************************************************************************)
Min(a, b) == IF a < b THEN a ELSE b

\* Array.prototype.slice(0, n)
Slice(seq, n) == SubSeq(seq, 1, Min(n, Len(seq)))

\* Array.prototype.filter
RECURSIVE FilterPresent(_, _)
FilterPresent(names, props) ==
    IF Len(names) = 0 THEN <<>>
    ELSE (IF HasKey(props, Head(names)) THEN <<Head(names)>> ELSE <<>>)
         \o FilterPresent(Tail(names), props)

\* a variant that binds by position only
buildCallArgs_ByPosition(signatureArgs, inputByName, inputOrder, fallbackArity) ==
    LET present == FilterPresent(inputOrder, inputByName)
        orderedValues == [i \in 1..Len(present) |-> GetProp(inputByName, present[i])]
    IN  IF Len(signatureArgs) = 0
        THEN IF fallbackArity > 0 THEN Slice(orderedValues, fallbackArity) ELSE orderedValues
        ELSE Slice(orderedValues, Len(signatureArgs))

\* a variant that does not cut the values down to the arity
buildCallArgs_Uncut(signatureArgs, inputByName, inputOrder, fallbackArity) ==
    LET hasAllNamedArgs ==
            /\ Len(signatureArgs) > 0
            /\ \A i \in 1..Len(signatureArgs) : HasKey(inputByName, signatureArgs[i])
        present == FilterPresent(inputOrder, inputByName)
        orderedValues == [i \in 1..Len(present) |-> GetProp(inputByName, present[i])]
    IN  IF hasAllNamedArgs
        THEN [i \in 1..Len(signatureArgs) |-> GetProp(inputByName, signatureArgs[i])]
        ELSE IF Len(signatureArgs) = 0 THEN orderedValues
        ELSE Slice(orderedValues, Len(signatureArgs))

buildCallArgs(signatureArgs, inputByName, inputOrder, fallbackArity) ==
    LET hasAllNamedArgs ==
            /\ Len(signatureArgs) > 0
            /\ \A i \in 1..Len(signatureArgs) : HasKey(inputByName, signatureArgs[i])
        present == FilterPresent(inputOrder, inputByName)
        orderedValues == [i \in 1..Len(present) |-> GetProp(inputByName, present[i])]
    IN  IF hasAllNamedArgs
        THEN [i \in 1..Len(signatureArgs) |-> GetProp(inputByName, signatureArgs[i])]
        ELSE IF Len(signatureArgs) = 0
        THEN IF fallbackArity > 0 THEN Slice(orderedValues, fallbackArity) ELSE orderedValues
        ELSE Slice(orderedValues, Len(signatureArgs))

(***************************************************************************)
(* Submitted JavaScript.  A program is what its text declares, in textual  *)
(* order, and what it does:                                                *)
(*   syntaxOk  whether new vm.Script(code) compiles it                     *)
(*   decls     the declarations of the text; each has                      *)
(*       form   "function"  function name(args) {..}                       *)
(*              "arrow"     kw name = (args) => ..                         *)
(*              "fnexpr"    kw name = function (args) {..}                 *)
(*              "arrow1"    kw name = arg => ..                            *)
(*              "assign"    name = function.. / globalThis.name = ..       *)
(*              "proto"     Object.prototype.name = function..             *)
(*              "class"     class name { methods }                         *)
(*       kw     "const", "let" or "var" (the three assigned forms)         *)
(*       scope  "top", or "inner" for text nested in a function body       *)
(*       arity  the length of the function value                           *)
(*       does   what a call of it does                                     *)
(*   top       what the top-level statements do: "ok", "throw", "loop",    *)
(*             or "random": they assign a function to one name of decls,   *)
(*             picked with Math.random(), which every context has          *)
(*   exports   what module.exports is left as: "object", "function",       *)
(*             "default" (an object whose default is a function)           *)
(***************************************************************************)
NoName == ""

IsAssigned(d) == d.form \in {"arrow", "fnexpr", "arrow1"}

Select(seq, Test(_)) ==
    LET F[i \in 0..Len(seq)] ==
            IF i = 0 THEN <<>>
            ELSE IF Test(seq[i]) THEN Append(F[i - 1], seq[i]) ELSE F[i - 1]
    IN  F[Len(seq)]

Names(decls) == [i \in 1..Len(decls) |-> decls[i].name]

\* Object.getOwnPropertyNames(globalThis) before the code is loaded: the
\* properties createContext was given (the built-ins are left out)
beforeKeys == <<"console", "module", "exports">>

\* a variant that lists the names in sorted order
GlobalFunctionKeys_Sorted(code) ==
    LET IsOwn(d) == d.scope = "top"
                    /\ \/ d.form \in {"function", "assign"}
                       \/ d.form \in {"arrow", "fnexpr", "arrow1"} /\ d.kw = "var"
    IN  SortStrings(Names(Select(code.decls, IsOwn)))

\* the own properties of globalThis the loaded code adds whose value is a
\* function, in property order: function declarations, then var names (both
\* are created when the script is instantiated), then assigned globals
GlobalFunctionKeys(code) ==
    LET IsFun(d) == d.scope = "top" /\ d.form = "function"
        IsVar(d) == d.scope = "top" /\ IsAssigned(d) /\ d.kw = "var"
        IsSet(d) == d.scope = "top" /\ d.form = "assign"
    IN  Names(Select(code.decls, IsFun)) \o Names(Select(code.decls, IsVar))
        \o Names(Select(code.decls, IsSet))

\* functions reachable through the prototype chain of globalThis
InheritedFunctionKeys(code) ==
    LET IsProto(d) == d.scope = "top" /\ d.form = "proto"
    IN  Names(Select(code.decls, IsProto))

\* let, const and class bindings of the script scope whose value is a function
LexicalFunctionNames(code) ==
    LET IsLex(d) == d.scope = "top"
                    /\ (d.form = "class" \/ (IsAssigned(d) /\ d.kw \in {"const", "let"}))
    IN  Names(Select(code.decls, IsLex))

\* typeof globalThis[name] === "function"
TypeofGlobalThisIsFunction(code, name) ==
    Includes(GlobalFunctionKeys(code), name) \/ Includes(InheritedFunctionKeys(code), name)

\* typeof name === "function"
TypeofNameIsFunction(code, name) ==
    TypeofGlobalThisIsFunction(code, name) \/ Includes(LexicalFunctionNames(code), name)

DeclOf(code, name) ==
    code.decls[CHOOSE i \in 1..Len(code.decls) :
                   code.decls[i].name = name /\ code.decls[i].scope = "top"]

NoMatch == [found |-> FALSE, name |-> NoName, args |-> <<>>]
Match(name, args) == [found |-> TRUE, name |-> name, args |-> args]

FirstOfForm(code, form) ==
    LET HasForm(d) == d.form = form
        hits == Select(code.decls, HasForm)
    IN  IF Len(hits) = 0 THEN NoMatch ELSE Match(hits[1].name, hits[1].args)

\* the four patterns in their order; found = FALSE where the code throws
findFunctionSignature(code) ==
    LET declarationMatch == FirstOfForm(code, "function")
        assignedArrowMatch == FirstOfForm(code, "arrow")
        assignedNamedFunctionMatch == FirstOfForm(code, "fnexpr")
        singleArgArrowMatch == FirstOfForm(code, "arrow1")
    IN  IF declarationMatch.found THEN declarationMatch
        ELSE IF assignedArrowMatch.found THEN assignedArrowMatch
        ELSE IF assignedNamedFunctionMatch.found THEN assignedNamedFunctionMatch
        ELSE IF singleArgArrowMatch.found THEN singleArgArrowMatch
        ELSE NoMatch

NoClassMethod == [found |-> FALSE, className |-> NoName, methodName |-> NoName, args |-> <<>>]

\* the first class of the text and the first method header of its body
findJsClassMethodSignature(code) ==
    LET IsClass(d) == d.form = "class"
        classMatch == Select(code.decls, IsClass)
    IN  IF Len(classMatch) = 0 THEN NoClassMethod
        ELSE IF Len(classMatch[1].methods) = 0 THEN NoClassMethod
        ELSE [found |-> TRUE, className |-> classMatch[1].name,
              methodName |-> classMatch[1].methods[1].name,
              args |-> classMatch[1].methods[1].args]

(***************************************************************************)
(* resolveJavascriptCallable.  The result says what __solution was bound   *)
(* to (solution), and `via` the return statement taken (its source line);  *)
(* ok = FALSE where the function throws err.                               *)
(***************************************************************************)
NoSolution == [kind |-> "none", name |-> NoName, method |-> NoName]
GlobalFn(name) == [kind |-> "globalThis", name |-> name, method |-> NoName]
NamedFn(name) == [kind |-> "name", name |-> name, method |-> NoName]
ClassCall(className, methodName) == [kind |-> "class", name |-> className, method |-> methodName]
ModuleExports == [kind |-> "module.exports", name |-> NoName, method |-> NoName]
ModuleExportsDefault == [kind |-> "module.exports.default", name |-> NoName, method |-> NoName]

Resolved(via, solution, argNames, fallbackArity) ==
    [ok |-> TRUE, via |-> via, solution |-> solution, argNames |-> argNames,
     fallbackArity |-> fallbackArity, err |-> Thrown(TRUE, "")]
Unresolved(via, err) ==
    [ok |-> FALSE, via |-> via, solution |-> NoSolution, argNames |-> <<>>,
     fallbackArity |-> 0, err |-> err]

\* thrown by the submitted code inside its context
Raised(message) == Thrown(FALSE, message)

\* __solution.length where __solution is a declared function
ArityOf(code, name) == DeclOf(code, name).arity

commonNames == <<"solve", "solution", "main">>

\* a variant that looks for a class before it looks for a named function
resolveJavascriptCallable_ClassFirst(code, expectedFunctionName) ==
    LET signature == findFunctionSignature(code)
        classMethod == findJsClassMethodSignature(code)
        afterKeys == beforeKeys \o GlobalFunctionKeys(code)
        IsNewFunction(key) == ~Includes(beforeKeys, key) /\ TypeofGlobalThisIsFunction(code, key)
        newFunctionKeys == Select(afterKeys, IsNewFunction)
        IsCommon(name) == TypeofGlobalThisIsFunction(code, name)
        commonHits == Select(commonNames, IsCommon)
    IN  IF ~code.syntaxOk THEN Unresolved(275, SyntaxError)
        ELSE IF code.top = "throw" THEN Unresolved(276, Raised("boom"))
        ELSE IF code.top = "loop" THEN Unresolved(276, TimedOut)
        ELSE IF expectedFunctionName # NoName
                /\ TypeofGlobalThisIsFunction(code, expectedFunctionName)
        THEN Resolved(293, GlobalFn(expectedFunctionName), <<>>,
                      ArityOf(code, expectedFunctionName))
        ELSE IF classMethod.found /\ TypeofNameIsFunction(code, classMethod.className)
        THEN Resolved(336, ClassCall(classMethod.className, classMethod.methodName),
                      classMethod.args, Len(classMethod.args))
        ELSE IF signature.found /\ TypeofNameIsFunction(code, signature.name)
        THEN Resolved(314, NamedFn(signature.name), signature.args,
                      ArityOf(code, signature.name))
        ELSE IF Len(newFunctionKeys) > 0
        THEN Resolved(369, GlobalFn(newFunctionKeys[1]), <<>>,
                      ArityOf(code, newFunctionKeys[1]))
        ELSE IF Len(commonHits) > 0
        THEN Resolved(391, GlobalFn(commonHits[1]), <<>>, ArityOf(code, commonHits[1]))
        ELSE IF code.exports = "function"
        THEN Resolved(410, ModuleExports, <<>>, code.exportsArity)
        ELSE IF code.exports = "default"
        THEN Resolved(428, ModuleExportsDefault, <<>>, code.exportsArity)
        ELSE Unresolved(434, Thrown(TRUE, "No callable solution function found."))

\* a variant that takes the new callable only when there is exactly one
resolveJavascriptCallable_SingleNew(code, expectedFunctionName) ==
    LET signature == findFunctionSignature(code)
        classMethod == findJsClassMethodSignature(code)
        afterKeys == beforeKeys \o GlobalFunctionKeys(code)
        IsNewFunction(key) == ~Includes(beforeKeys, key) /\ TypeofGlobalThisIsFunction(code, key)
        newFunctionKeys == Select(afterKeys, IsNewFunction)
        IsCommon(name) == TypeofGlobalThisIsFunction(code, name)
        commonHits == Select(commonNames, IsCommon)
    IN  IF ~code.syntaxOk THEN Unresolved(275, SyntaxError)
        ELSE IF code.top = "throw" THEN Unresolved(276, Raised("boom"))
        ELSE IF code.top = "loop" THEN Unresolved(276, TimedOut)
        ELSE IF expectedFunctionName # NoName
                /\ TypeofGlobalThisIsFunction(code, expectedFunctionName)
        THEN Resolved(293, GlobalFn(expectedFunctionName), <<>>,
                      ArityOf(code, expectedFunctionName))
        ELSE IF signature.found /\ TypeofNameIsFunction(code, signature.name)
        THEN Resolved(314, NamedFn(signature.name), signature.args,
                      ArityOf(code, signature.name))
        ELSE IF classMethod.found /\ TypeofNameIsFunction(code, classMethod.className)
        THEN Resolved(336, ClassCall(classMethod.className, classMethod.methodName),
                      classMethod.args, Len(classMethod.args))
        ELSE IF Len(newFunctionKeys) = 1
        THEN Resolved(369, GlobalFn(newFunctionKeys[1]), <<>>,
                      ArityOf(code, newFunctionKeys[1]))
        ELSE IF Len(commonHits) > 0
        THEN Resolved(391, GlobalFn(commonHits[1]), <<>>, ArityOf(code, commonHits[1]))
        ELSE IF code.exports = "function"
        THEN Resolved(410, ModuleExports, <<>>, code.exportsArity)
        ELSE IF code.exports = "default"
        THEN Resolved(428, ModuleExportsDefault, <<>>, code.exportsArity)
        ELSE Unresolved(434, Thrown(TRUE, "No callable solution function found."))

resolveJavascriptCallable(code, expectedFunctionName) ==
    LET signature == findFunctionSignature(code)
        classMethod == findJsClassMethodSignature(code)
        afterKeys == beforeKeys \o GlobalFunctionKeys(code)
        IsNewFunction(key) == ~Includes(beforeKeys, key) /\ TypeofGlobalThisIsFunction(code, key)
        newFunctionKeys == Select(afterKeys, IsNewFunction)
        IsCommon(name) == TypeofGlobalThisIsFunction(code, name)
        commonHits == Select(commonNames, IsCommon)
    IN  IF ~code.syntaxOk THEN Unresolved(275, SyntaxError)
        ELSE IF code.top = "throw" THEN Unresolved(276, Raised("boom"))
        ELSE IF code.top = "loop" THEN Unresolved(276, TimedOut)
        ELSE IF expectedFunctionName # NoName
                /\ TypeofGlobalThisIsFunction(code, expectedFunctionName)
        THEN Resolved(293, GlobalFn(expectedFunctionName), <<>>,
                      ArityOf(code, expectedFunctionName))
        ELSE IF signature.found /\ TypeofNameIsFunction(code, signature.name)
        THEN Resolved(314, NamedFn(signature.name), signature.args,
                      ArityOf(code, signature.name))
        ELSE IF classMethod.found /\ TypeofNameIsFunction(code, classMethod.className)
        THEN Resolved(336, ClassCall(classMethod.className, classMethod.methodName),
                      classMethod.args, Len(classMethod.args))
        ELSE IF Len(newFunctionKeys) > 0
        THEN Resolved(369, GlobalFn(newFunctionKeys[1]), <<>>,
                      ArityOf(code, newFunctionKeys[1]))
        ELSE IF Len(commonHits) > 0
        THEN Resolved(391, GlobalFn(commonHits[1]), <<>>, ArityOf(code, commonHits[1]))
        ELSE IF code.exports = "function"
        THEN Resolved(410, ModuleExports, <<>>, code.exportsArity)
        ELSE IF code.exports = "default"
        THEN Resolved(428, ModuleExportsDefault, <<>>, code.exportsArity)
        ELSE Unresolved(434, Thrown(TRUE, "No callable solution function found."))

(***************************************************************************)
(* What a call of submitted code does.  `calls` is the state the code      *)
(* keeps in its globals (the number of calls it has counted).              *)
(*   "first"    returns its first argument                                 *)
(*   "pair"     returns [0, 1]                                             *)
(*   "object"   returns {b: 2, a: 1}                                       *)
(*   "nothing"  returns undefined (None)                                   *)
(*   "printPair" writes a line with console.log / print, returns [0, 1]    *)
(*   "count"    returns the number of earlier calls and counts this one    *)
(*              in a global of its context                                 *)
(*   "hostCount" does the same in a property of the global object of the   *)
(*              host, which it reaches as                                  *)
(*              console.log.constructor("return this")()                   *)
(*   "throw"    throws Error("boom"); "throwEmpty" throws Error("")        *)
(*   "loop"     does not return                                            *)
(***************************************************************************)
Returned(v, calls) == [ok |-> TRUE, v |-> v, err |-> Thrown(TRUE, ""), calls |-> calls]
Threw(err, calls) == [ok |-> FALSE, v |-> Undefined, err |-> err, calls |-> calls]
\* no call was made, or the call did not return
NoCall == Threw(Thrown(TRUE, ""), 0)

Behave(does, args, calls) ==
    CASE does = "first" -> Returned(IF Len(args) > 0 THEN args[1] ELSE Undefined, calls)
      [] does \in {"pair", "printPair"} -> Returned(Arr(<<Num(0), Num(1)>>), calls)
      [] does = "object" -> Returned(Obj(<< <<"b", Num(2)>>, <<"a", Num(1)>> >>), calls)
      [] does = "nothing" -> Returned(Undefined, calls)
      [] does \in {"count", "hostCount"} -> Returned(Num(calls), calls + 1)
      [] does = "throw" -> Threw(Raised("boom"), calls)
      [] does = "throwEmpty" -> Threw(Raised(""), calls)
      [] does = "loop" -> Threw(TimedOut, calls)

\* vm.runInContext("__solution(...__args)", executionContext, {timeout: 1000})
CallSolution(code, solution, args, calls) ==
    CASE solution.kind \in {"globalThis", "name"} ->
            Behave(DeclOf(code, solution.name).does, args, calls)
      [] solution.kind = "class" ->
            \* (...args) => (new C()).m(...args); C.prototype.constructor is C
            IF solution.method = "constructor"
            THEN Threw(Raised("Class constructor cannot be invoked without new"), calls)
            ELSE Behave(DeclOf(code, solution.name).methods[1].does, args, calls)
      [] solution.kind \in {"module.exports", "module.exports.default"} ->
            Behave(code.exportsDoes, args, calls)

(***************************************************************************)
(* Case results and verdicts                                               *)
(***************************************************************************)
\* a CaseResult; hasActual and hasError say whether the optional fields are set
CaseActual(input, expected, actual, passed) ==
    [input |-> input, expected |-> expected, hasActual |-> TRUE, actual |-> actual,
     passed |-> passed, hasError |-> FALSE, error |-> ""]
CaseError(input, expected, message) ==
    [input |-> input, expected |-> expected, hasActual |-> FALSE, actual |-> "",
     passed |-> FALSE, hasError |-> TRUE, error |-> message]

\* error instanceof Error ? error.message : "Execution error"
MessageOf(err) == IF err.isError THEN err.message ELSE "Execution error"

\* a variant that counts the cases that produced a value
CountPassed_CountsActual(results) ==
    Cardinality({i \in 1..Len(results) : results[i].hasActual})

\* results.filter((result) => result.passed).length
CountPassed(results) == Cardinality({i \in 1..Len(results) : results[i].passed})

\* results.some((result) => result.error): the truthiness of the error text
SomeError(results) == \E i \in 1..Len(results) : results[i].hasError /\ results[i].error # ""

\* a variant that reports every failed run as a runtime error
StatusOf_ErrorForMismatch(results) ==
    IF CountPassed(results) = Len(results) THEN "Accepted" ELSE "Runtime Error"

\* a variant that accepts a run as soon as one case passed
StatusOf_AnyPassed(results) ==
    IF CountPassed(results) > 0 \/ Len(results) = 0 THEN "Accepted"
    ELSE IF SomeError(results) THEN "Runtime Error"
    ELSE "Wrong Answer"

\* a variant with a status of its own for runs in which a time limit was hit
StatusOf_TimeLimit(results) ==
    IF CountPassed(results) = Len(results) THEN "Accepted"
    ELSE IF \E i \in 1..Len(results) :
               /\ results[i].hasError
               /\ results[i].error \in {TimedOut.message, "spawnSync python ETIMEDOUT",
                                        "spawnSync py ETIMEDOUT"}
    THEN "Time Limit Exceeded"
    ELSE IF SomeError(results) THEN "Runtime Error"
    ELSE "Wrong Answer"

StatusOf(results) ==
    IF CountPassed(results) = Len(results) THEN "Accepted"
    ELSE IF SomeError(results) THEN "Runtime Error"
    ELSE "Wrong Answer"

Verdict(status, runtime, passed, total, results) ==
    [status |-> status, runtime |-> runtime, passed |-> passed, total |-> total,
     results |-> results]

\* a variant that leaves the status to the rule of the ordinary runs
buildFatalRunResult_ByRule(message, testCases) ==
    LET failed == [i \in 1..Len(testCases) |->
                      CaseError(testCases[i].input, testCases[i].output, message)]
    IN  Verdict(StatusOf(failed), 0, 0, Len(testCases), failed)

buildFatalRunResult(message, testCases) ==
    Verdict("Runtime Error", 0, 0, Len(testCases),
            [i \in 1..Len(testCases) |->
                CaseError(testCases[i].input, testCases[i].output, message)])

\* Strict compares the canonical strings; execution_only passes what ran
Passes(mode, actual, expected) == IF mode = "execution_only" THEN TRUE ELSE actual = expected

\* what one iteration of the map did: the CaseResult, the global state the
\* call leaves, whether the arguments were bound, whether the solution was
\* called, the processes spawned, whether the call returned and with what
\* value, whether the expected output was parsed and to what value
NotParsed == Failed(Thrown(TRUE, ""))

Outcome(result, calls, bound, called, spawns, call, expectedValue) ==
    [result |-> result, calls |-> calls, bound |-> bound, called |-> called,
     spawns |-> spawns, returned |-> call.ok, actualValue |-> call.v,
     timedOut |-> \/ ~call.ok /\ call.err = TimedOut
                  \/ ~expectedValue.ok /\ expectedValue.err = TimedOut,
     parsed |-> expectedValue.ok, expectedValue |-> expectedValue.v]

\* one iteration of the map of runJavascriptAgainstTestCases
JsCase(code, resolvedCallable, testCase, mode, calls) ==
    With(parseAssignments(testCase.input), LAMBDA inputByName :
        IF ~inputByName.ok
        THEN Outcome(CaseError(testCase.input, testCase.output, MessageOf(inputByName.err)),
                     calls, FALSE, FALSE, 0, NoCall, NotParsed)
        ELSE
    With(buildCallArgs(resolvedCallable.argNames, inputByName.v.v,
                       parseAssignmentOrder(testCase.input),
                       resolvedCallable.fallbackArity), LAMBDA args :
    With(CallSolution(code, resolvedCallable.solution, args, calls), LAMBDA call :
        IF ~call.ok
        THEN Outcome(CaseError(testCase.input, testCase.output, MessageOf(call.err)),
                     call.calls, TRUE, TRUE, 0, call, NotParsed)
        ELSE
    With(parseLiteral(testCase.output), LAMBDA expectedValue :
        IF ~expectedValue.ok
        THEN Outcome(CaseError(testCase.input, testCase.output,
                               MessageOf(expectedValue.err)),
                     call.calls, TRUE, TRUE, 0, call, expectedValue)
        ELSE
    With(normalize(expectedValue.v), LAMBDA expected :
    With(normalize(call.v), LAMBDA actual :
        Outcome(CaseActual(testCase.input, expected, actual,
                           Passes(mode, actual, expected)),
                call.calls, TRUE, TRUE, 0, call, expectedValue)))))))

(***************************************************************************)
(* Submitted Python.  A program is                                         *)
(*   syntaxOk  whether exec compiles it                                    *)
(*   defs      the def statements of the text in textual order, each with  *)
(*             name, params (as written, self included), owner (the class  *)
(*             it is a method of, "" for a top-level function) and does    *)
(*   top       what the top-level statements do: "ok", "throw", "loop"     *)
(***************************************************************************)
\* the first def of the text; found = FALSE where the code throws
findPythonFunctionSignature(code) ==
    IF Len(code.defs) = 0 THEN NoMatch
    ELSE Match(code.defs[1].name, code.defs[1].params)

\* what JSON.stringify and JSON.parse leave of a value: an undefined array
\* element becomes null, an undefined property is dropped
RECURSIVE ThroughJSON(_)
ThroughJSON(value) ==
    CASE value.t = "undefined" -> Null
      [] value.t = "array" -> Arr([i \in 1..Len(value.v) |-> ThroughJSON(value.v[i])])
      [] value.t = "object" ->
            LET Defined(prop) == prop[2].t # "undefined"
                kept == Select(value.v, Defined)
            IN  Obj([i \in 1..Len(kept) |-> <<kept[i][1], ThroughJSON(kept[i][2])>>])
      [] OTHER -> value

StartsWithUnderscore(name) == Ch(name, 1) = "_"

\* len(inspect.signature(f).parameters): a bound method does not count self
ParameterCount(def) == IF def.owner = "" THEN Len(def.params) ELSE Len(def.params) - 1

NoDef == [name |-> NoName, params |-> <<>>, owner |-> "", does |-> "none"]

\* the public methods of a Solution instance in the order of dir(): by name
SolutionMethods(code) ==
    LET IsPublic(d) == d.owner = "Solution" /\ ~StartsWithUnderscore(d.name)
        methods == Select(code.defs, IsPublic)
        sorted == SortStrings(Names(methods))
    IN  [i \in 1..Len(sorted) |->
            methods[CHOOSE k \in 1..Len(methods) : methods[k].name = sorted[i]]]

\* the public top-level functions in the order of the namespace
TopLevelFunctions(code) ==
    LET IsPublic(d) == d.owner = "" /\ ~StartsWithUnderscore(d.name)
    IN  Select(code.defs, IsPublic)

\* the entry point the companion script calls: NoDef if it finds none
PythonEntryPoint(code, functionName, argCount) ==
    LET IsNamed(d) == d.owner = "" /\ d.name = functionName
        named == Select(code.defs, IsNamed)
        IsExact(d) == ParameterCount(d) = argCount
        classMethods == SolutionMethods(code)
        exactMethods == Select(classMethods, IsExact)
        topLevel == TopLevelFunctions(code)
        exactTopLevel == Select(topLevel, IsExact)
    IN  IF functionName # NoName /\ Len(named) > 0 THEN named[Len(named)]
        ELSE IF Len(exactMethods) > 0 THEN exactMethods[1]
        ELSE IF Len(classMethods) > 0 THEN classMethods[1]
        ELSE IF Len(exactTopLevel) > 0 THEN exactTopLevel[1]
        ELSE IF Len(topLevel) > 0 THEN topLevel[1]
        ELSE NoDef

\* the companion script run by an interpreter that started.  out is what the
\* process leaves on stdout: "json" the one document the script prints, "text"
\* lines printed by the code followed by that document, "timeout" nothing, the
\* process being killed after 1500 ms.  completed says whether the call of
\* the entry point returned, value what it returned.
Script(out, ok, actual, error, completed, value) ==
    [out |-> out, ok |-> ok, actual |-> actual, error |-> error,
     completed |-> completed, value |-> value]

\* the value in the document that code with top "forge" prints itself,
\* print(json.dumps({"ok": True, "actual": [0, 1]})), before it ends the
\* process with sys.exit(0)
Forged == Arr(<<Num(0), Num(1)>>)

ScriptFailed(error) == Script("json", FALSE, Null, error, FALSE, Undefined)
ScriptKilled == Script("timeout", FALSE, Null, "", FALSE, Undefined)
\* code with top "exit" ends the process with sys.exit(0): nothing on stdout
\* or stderr
ScriptSilent == Script("empty", FALSE, Null, "", FALSE, Undefined)

PythonScript(code, functionName, args) ==
    With(PythonEntryPoint(code, functionName, Len(args)), LAMBDA fn :
    With(IF fn = NoDef THEN Returned(Null, 0) ELSE Behave(fn.does, args, 0), LAMBDA call :
        IF ~code.syntaxOk THEN ScriptFailed("invalid syntax")
        ELSE IF code.top = "throw" THEN ScriptFailed("boom")
        ELSE IF code.top = "loop" THEN ScriptKilled
        ELSE IF code.top = "exit" THEN ScriptSilent
        ELSE IF code.top = "forge" THEN Script("json", TRUE, Forged, "", FALSE, Undefined)
        ELSE IF fn = NoDef THEN ScriptFailed("No callable solution function found.")
        ELSE IF ParameterCount(fn) # Len(args)
        THEN ScriptFailed("takes " \o ToString(ParameterCount(fn))
                          \o " positional arguments but " \o ToString(Len(args))
                          \o " were given")
        ELSE IF call.ok
        THEN Script(IF fn.does = "printPair" THEN "text" ELSE "json", TRUE,
                    ThroughJSON(call.v), "", TRUE, ThroughJSON(call.v))
        ELSE IF call.err = TimedOut THEN ScriptKilled
        ELSE ScriptFailed(call.err.message)))

(***************************************************************************)
(* The host: which interpreter spawnSync finds.                            *)
(*   "python"  python starts                                               *)
(*   "py"      python is not found (ENOENT), py starts                     *)
(*   "none"    neither is found                                            *)
(*   "denied"  spawning python fails with another error (EACCES), py would *)
(*             start                                                       *)
(***************************************************************************)
Hosts == {"python", "py", "none", "denied"}

RuntimeNotFound == "Python runtime not found. Install Python and try again."

\* the attempts of both Python runners, in their order
Interpreters == <<"python", "py">>

\* execution.error.code of spawnSync(cmd, ...) on the host, "started" if the
\* process was started
spawnSync(host, cmd) ==
    CASE host = "python" -> IF cmd = "python" THEN "started" ELSE "ENOENT"
      [] host = "py" -> IF cmd = "py" THEN "started" ELSE "ENOENT"
      [] host = "denied" -> IF cmd = "python" THEN "EACCES" ELSE "started"
      [] host = "none" -> "ENOENT"

\* a variant of the loop that goes on to the next name after any spawn error
RECURSIVE FirstInterpreter_AfterAnyError(_, _)
FirstInterpreter_AfterAnyError(host, k) ==
    IF k > Len(Interpreters) THEN [outcome |-> "ENOENT", cmd |-> "", spawns |-> k - 1]
    ELSE IF spawnSync(host, Interpreters[k]) # "started"
    THEN FirstInterpreter_AfterAnyError(host, k + 1)
    ELSE [outcome |-> "started", cmd |-> Interpreters[k], spawns |-> k]

\* for (const attempt of attempts), from attempt k on: the first attempt that
\* does not end with ENOENT, and the number of processes spawnSync was asked
\* for
RECURSIVE FirstInterpreter(_, _)
FirstInterpreter(host, k) ==
    IF k > Len(Interpreters) THEN [outcome |-> "ENOENT", cmd |-> "", spawns |-> k - 1]
    ELSE IF spawnSync(host, Interpreters[k]) = "ENOENT" THEN FirstInterpreter(host, k + 1)
    ELSE [outcome |-> spawnSync(host, Interpreters[k]), cmd |-> Interpreters[k],
          spawns |-> k]

\* the result of runPythonCase, with the processes it spawned and what the
\* call of the entry point did in the process
PyOk(actual, spawns, call) ==
    [ok |-> TRUE, actual |-> actual, error |-> "", spawns |-> spawns, call |-> call]
PyFail(error, spawns, call) ==
    [ok |-> FALSE, actual |-> Null, error |-> error, spawns |-> spawns, call |-> call]

runPythonCase(host, code, functionName, args) ==
    With(FirstInterpreter(host, 1), LAMBDA attempt :
    LET spawns == attempt.spawns
        cmd == attempt.cmd
    IN  IF attempt.outcome = "ENOENT" THEN PyFail(RuntimeNotFound, spawns, NoCall)
        ELSE IF attempt.outcome # "started"
        THEN PyFail("spawnSync " \o cmd \o " " \o attempt.outcome, spawns, NoCall)
        ELSE With(PythonScript(code, functionName, ThroughJSON(Arr(args)).v), LAMBDA script :
        IF script.out = "timeout"
        THEN PyFail("spawnSync " \o cmd \o " ETIMEDOUT", spawns, Threw(TimedOut, 0))
        ELSE IF script.out = "empty"
        THEN PyFail("Python execution failed.", spawns, NoCall)
        ELSE IF script.out = "text"
        THEN PyFail("Invalid Python runner response.", spawns,
                    IF script.completed THEN Returned(script.value, 0) ELSE NoCall)
        ELSE IF script.ok
        THEN PyOk(script.actual, spawns,
                  IF script.completed THEN Returned(script.value, 0) ELSE NoCall)
        ELSE PyFail(script.error, spawns, NoCall)))

\* one iteration of the map of runPythonAgainstTestCases
PyCase(host, code, signature, expectedFunctionName, testCase, mode) ==
    With(parseAssignments(testCase.input), LAMBDA inputByName :
        IF ~inputByName.ok
        THEN Outcome(CaseError(testCase.input, testCase.output, MessageOf(inputByName.err)),
                     0, FALSE, FALSE, 0, NoCall, NotParsed)
        ELSE
    With(buildCallArgs(signature.args, inputByName.v.v, parseAssignmentOrder(testCase.input),
                       Len(signature.args)), LAMBDA args :
    With(parseLiteral(testCase.output), LAMBDA expectedValue :
        IF ~expectedValue.ok
        THEN Outcome(CaseError(testCase.input, testCase.output,
                               MessageOf(expectedValue.err)),
                     0, TRUE, FALSE, 0, NoCall, expectedValue)
        ELSE
    With(runPythonCase(host, code,
                       IF signature.found THEN signature.name ELSE expectedFunctionName,
                       args), LAMBDA execution :
    With(normalize(expectedValue.v), LAMBDA expected :
        IF ~execution.ok
        THEN Outcome(CaseError(testCase.input, expected, execution.error),
                     0, TRUE, TRUE, execution.spawns, execution.call, expectedValue)
        ELSE
    With(normalize(execution.actual), LAMBDA actual :
        Outcome(CaseActual(testCase.input, expected, actual,
                           Passes(mode, actual, expected)),
                0, TRUE, TRUE, execution.spawns, execution.call, expectedValue)))))))

(***************************************************************************)
(* Execution-only runs                                                     *)
(***************************************************************************)
SyntheticCase == [input |-> "execution-only", output |-> "code executes without runtime errors"]

\* a variant that reports on the test cases as they are given
syntheticCases_AsGiven(testCases) == testCases

syntheticCases(testCases) == IF Len(testCases) > 0 THEN testCases ELSE <<SyntheticCase>>

AllExecuted(cases, runtime) ==
    Verdict("Accepted", runtime, Len(cases), Len(cases),
            [i \in 1..Len(cases) |->
                CaseActual(cases[i].input, cases[i].output, "executed", TRUE)])

AllFailed(cases, runtime, message) ==
    Verdict("Runtime Error", runtime, 0, Len(cases),
            [i \in 1..Len(cases) |-> CaseError(cases[i].input, cases[i].output, message)])

\* what loading the code in a new context throws, if anything
LoadJavascript(code) ==
    IF ~code.syntaxOk THEN Threw(SyntaxError, 0)
    ELSE IF code.top = "throw" THEN Threw(Raised("boom"), 0)
    ELSE IF code.top = "loop" THEN Threw(TimedOut, 0)
    ELSE Returned(Undefined, 0)

\* a variant that also asks for a callable
runJavascriptExecutionOnly_Resolving(code, testCases, runtime) ==
    LET load == LoadJavascript(code)
        resolved == resolveJavascriptCallable(code, NoName)
    IN  IF load.ok /\ resolved.ok THEN AllExecuted(syntheticCases(testCases), runtime)
        ELSE AllFailed(syntheticCases(testCases), runtime,
                       MessageOf(IF load.ok THEN resolved.err ELSE load.err))

runJavascriptExecutionOnly(code, testCases, runtime) ==
    LET load == LoadJavascript(code)
    IN  IF load.ok THEN AllExecuted(syntheticCases(testCases), runtime)
        ELSE AllFailed(syntheticCases(testCases), runtime, MessageOf(load.err))

runPythonExecutionOnly(host, code, testCases, runtime) ==
    LET cases == syntheticCases(testCases)
        attempt == FirstInterpreter(host, 1)
        cmd == attempt.cmd
    IN  IF attempt.outcome = "ENOENT" THEN AllFailed(cases, runtime, RuntimeNotFound)
        ELSE IF attempt.outcome # "started"
        THEN AllFailed(cases, runtime, "spawnSync " \o cmd \o " " \o attempt.outcome)
        ELSE IF code.syntaxOk /\ code.top = "loop"
        THEN AllFailed(cases, runtime, "spawnSync " \o cmd \o " ETIMEDOUT")
        ELSE IF ~code.syntaxOk THEN AllFailed(cases, runtime, "SyntaxError: invalid syntax")
        ELSE IF code.top = "throw" THEN AllFailed(cases, runtime, "Exception: boom")
        ELSE AllExecuted(cases, runtime)

(***************************************************************************)
(* The submissions, problems and hosts the model runs                      *)
(***************************************************************************)
Fn(form, kw, name, args, scope, does) ==
    [form |-> form, kw |-> kw, name |-> name, args |-> args, arity |-> Len(args),
     scope |-> scope, does |-> does, methods |-> <<>>]
Method(name, args, does) == [name |-> name, args |-> args, does |-> does]
Class(name, methods) ==
    [form |-> "class", kw |-> "class", name |-> name, args |-> <<>>, arity |-> 0,
     scope |-> "top", does |-> "none", methods |-> methods]

JsCode(syntaxOk, decls, top, exports, exportsDoes) ==
    [syntaxOk |-> syntaxOk, decls |-> decls, top |-> top, exports |-> exports,
     exportsArity |-> 1, exportsDoes |-> exportsDoes]

Declares(d) == JsCode(TRUE, <<d>>, "ok", "object", "none")

JavascriptPrograms ==
    { Declares(Fn("function", "function", "twoSum", <<"nums", "target">>, "top", "pair")),
      Declares(Fn("function", "function", "twoSum", <<"target", "nums">>, "top", "first")),
      Declares(Fn("arrow", "const", "pick", <<"x">>, "top", "first")),
      Declares(Fn("function", "function", "echo", <<"x">>, "top", "object")),
      Declares(Fn("function", "function", "fail", <<"x">>, "top", "throw")),
      Declares(Fn("function", "function", "spin", <<"x">>, "top", "loop")),
      Declares(Fn("assign", "none", "tally", <<>>, "top", "count")),
      Declares(Class("Solution", <<Method("twoSum", <<"nums", "target">>, "pair")>>)),
      JsCode(TRUE, <<>>, "ok", "function", "nothing"),
      JsCode(TRUE, <<>>, "ok", "object", "none"),
      JsCode(FALSE, <<>>, "ok", "object", "none"),
      JsCode(TRUE, <<>>, "throw", "object", "none"),
      JsCode(TRUE, <<>>, "loop", "object", "none") }

Def(name, params, owner, does) ==
    [name |-> name, params |-> params, owner |-> owner, does |-> does]

PyCode(syntaxOk, defs, top) == [syntaxOk |-> syntaxOk, defs |-> defs, top |-> top]

PythonPrograms ==
    { PyCode(TRUE, <<Def("twoSum", <<"nums", "target">>, "", "pair")>>, "ok"),
      PyCode(TRUE, <<Def("twoSum", <<"self", "nums", "target">>, "Solution", "pair")>>, "ok"),
      PyCode(TRUE, <<Def("twoSum", <<"nums", "target">>, "", "printPair")>>, "ok"),
      PyCode(TRUE, <<Def("pick", <<"x">>, "", "first")>>, "ok"),
      PyCode(TRUE, <<Def("echo", <<"x">>, "", "object")>>, "ok"),
      PyCode(TRUE, <<Def("fail", <<"x">>, "", "throw")>>, "ok"),
      PyCode(TRUE, <<Def("fail", <<"x">>, "", "throwEmpty")>>, "ok"),
      PyCode(TRUE, <<Def("spin", <<"x">>, "", "loop")>>, "ok"),
      PyCode(TRUE, <<Def("tally", <<"x">>, "", "count")>>, "ok"),
      PyCode(TRUE, <<>>, "ok"),
      PyCode(FALSE, <<>>, "ok"),
      PyCode(TRUE, <<>>, "throw"),
      PyCode(TRUE, <<>>, "forge"),
      PyCode(TRUE, <<>>, "exit") }

TestCase(input, output) == [input |-> input, output |-> output]

Fixtures ==
    { TestCase("nums = [2,7], target = 9", "[0, 1]"),
      TestCase("x = {b: 2, a: 1}", "{a: 1, b: 2}"),
      TestCase("x = 0", "0"),
      TestCase("x = [1,", "1"),
      TestCase("x = 0", "[0,1"),
      TestCase("x = 0", LoopingLiteral) }

\* the longest list of test cases of a problem
MaxCases == 2
\* the largest elapsed time, in ms, the clock reports for a run
MaxElapsed == 1

TestCaseLists == UNION {[1..n -> Fixtures] : n \in 0..MaxCases}

FunctionNames == {NoName, "twoSum"}

(***************************************************************************)
(* State                                                                   *)
(***************************************************************************)
VARIABLES
    pc,                \* where the run is: "idle", "run", "javascript", "python", "done"
    request,           \* the arguments of runAgainstTestCases
    host,              \* the interpreters the host has when the run starts
    resolvedCallable,  \* runJavascriptAgainstTestCases: the resolved callable
    calls,             \* the state the code keeps in the globals of its context
    signature,         \* runPythonAgainstTestCases: the signature found
    results,           \* the CaseResults gathered so far
    verdict,           \* the Verdict returned
    ops,               \* what the run has done: contexts loaded, resolutions,
                       \* argument bindings, calls of __solution, processes spawned
    trace,             \* what each iteration of the map did, in order
    server,            \* the HTTP handlers in flight and what the server keeps
    probe              \* one function of the judge applied on its own: its
                       \* arguments and what it returned

vars == <<pc, request, host, resolvedCallable, calls, signature, results, verdict, ops,
          trace, server, probe>>

\* no handler is in flight, nothing was written to the global object of the
\* host
NoServer == [handlers |-> <<>>, realm |-> 0, submissions |-> <<>>]
\* no function is applied on its own
NoProbe == [of |-> "none"]

NoRequest ==
    [code |-> JsCode(TRUE, <<>>, "ok", "object", "none"), testCases |-> <<>>,
     language |-> "none", expectedFunctionName |-> NoName, mode |-> "none"]
NoVerdict == Verdict("none", 0, 0, 0, <<>>)
\* created: the function-valued globals the load of the code left
NoOps ==
    [loads |-> 0, resolutions |-> 0, binds |-> 0, calls |-> 0, spawns |-> 0,
     created |-> <<>>]
NotResolved == Unresolved(0, Thrown(TRUE, ""))

Init ==
    /\ pc = "idle"
    /\ request = NoRequest
    /\ host \in Hosts
    /\ resolvedCallable = NotResolved
    /\ calls = 0
    /\ signature = NoMatch
    /\ results = <<>>
    /\ verdict = NoVerdict
    /\ ops = NoOps
    /\ trace = <<>>
    /\ server = NoServer
    /\ probe = NoProbe

\* a caller invokes runAgainstTestCases
Invoke ==
    /\ pc = "idle"
    /\ \E language \in {"javascript", "python"},
          testCases \in TestCaseLists,
          expectedFunctionName \in FunctionNames,
          mode \in {"strict", "execution_only"} :
       \E code \in (IF language = "javascript" THEN JavascriptPrograms ELSE PythonPrograms) :
          request' = [code |-> code, testCases |-> testCases, language |-> language,
                      expectedFunctionName |-> expectedFunctionName, mode |-> mode]
    /\ pc' = "run"
    /\ resolvedCallable' = NotResolved
    /\ calls' = 0
    /\ signature' = NoMatch
    /\ results' = <<>>
    /\ verdict' = NoVerdict
    /\ ops' = NoOps
    /\ trace' = <<>>
    /\ UNCHANGED <<host, server, probe>>

\* runAgainstTestCases, execution_only, javascript
JavascriptExecutionOnly ==
    /\ pc = "run"
    /\ request.mode = "execution_only"
    /\ request.language # "python"
    /\ \E runtime \in 0..MaxElapsed :
          verdict' = runJavascriptExecutionOnly(request.code, request.testCases, runtime)
    /\ ops' = [ops EXCEPT !.loads = @ + 1]
    /\ pc' = "done"
    /\ UNCHANGED <<request, host, resolvedCallable, calls, signature, results, trace, server,
                    probe>>

\* runAgainstTestCases, execution_only, python
PythonExecutionOnly ==
    /\ pc = "run"
    /\ request.mode = "execution_only"
    /\ request.language = "python"
    /\ \E runtime \in 0..MaxElapsed :
          verdict' = runPythonExecutionOnly(host, request.code, request.testCases, runtime)
    /\ ops' = [ops EXCEPT !.spawns = @ + FirstInterpreter(host, 1).spawns]
    /\ pc' = "done"
    /\ UNCHANGED <<request, host, resolvedCallable, calls, signature, results, trace, server,
                    probe>>

\* runJavascriptAgainstTestCases up to the map: the context is created, the
\* callable resolved; a failure returns the fatal result
\* what a run of the top-level statements can leave of the code
Loads(code) ==
    IF code.top = "random"
    THEN {[code EXCEPT !.top = "ok", !.decls = <<code.decls[i]>>] : i \in 1..Len(code.decls)}
    ELSE {code}

JavascriptResolve ==
    /\ pc = "run"
    /\ request.mode # "execution_only"
    /\ request.language # "python"
    /\ \E loaded \in Loads(request.code) :
       \E resolved \in {resolveJavascriptCallable(loaded, request.expectedFunctionName)} :
           /\ resolvedCallable' = resolved
           /\ ops' = [ops EXCEPT !.loads = @ + 1, !.resolutions = @ + 1,
                                 !.created = IF loaded.syntaxOk /\ loaded.top = "ok"
                                             THEN GlobalFunctionKeys(loaded) ELSE <<>>]
           /\ IF ~resolved.ok
              THEN /\ verdict' = buildFatalRunResult(MessageOf(resolved.err), request.testCases)
                   /\ pc' = "done"
              ELSE IF resolved.solution.kind = "none"
              THEN /\ verdict' = buildFatalRunResult("No callable solution function found.",
                                                     request.testCases)
                   /\ pc' = "done"
              ELSE /\ verdict' = verdict
                   /\ pc' = "javascript"
    /\ UNCHANGED <<request, host, calls, signature, results, trace, server, probe>>

\* a variant that stops the map at the first case that failed
MoreCases_StopAtError(gathered, testCases) ==
    /\ Len(gathered) < Len(testCases)
    /\ \A i \in 1..Len(gathered) : ~gathered[i].hasError

\* testCases.map: the cases are taken in order, each exactly once
MoreCases(gathered, testCases) == Len(gathered) < Len(testCases)

\* the code keeps its counter on the global object of the host: the functions
\* of the sandbox object (console.log) are functions of the host, and their
\* constructor is the Function of the host
ReachesHost(code) ==
    /\ "decls" \in DOMAIN code
    /\ \E i \in 1..Len(code.decls) : code.decls[i].does = "hostCount"

\* new global bindings of a context made by vm.createContext
createContext == 0

\* a variant that makes a context for each case
NextContext_Rebuilt(left) == createContext

\* the context the next case of the map runs in: executionContext is made
\* once, before the map, so it holds what the last case left in it
NextContext(left) == left

\* runJavascriptAgainstTestCases: the next test case of the map
JavascriptCase ==
    /\ pc = "javascript"
    /\ MoreCases(results, request.testCases)
    /\ \E case \in {JsCase(request.code, resolvedCallable,
                             request.testCases[Len(results) + 1], request.mode,
                             IF ReachesHost(request.code) THEN server.realm ELSE calls)} :
           /\ results' = Append(results, case.result)
           /\ trace' = Append(trace, [case EXCEPT !.result = 0])
           /\ calls' = (IF ReachesHost(request.code) THEN calls ELSE NextContext(case.calls))
           /\ server' = (IF ReachesHost(request.code)
                         THEN [server EXCEPT !.realm = case.calls] ELSE server)
           /\ ops' = [ops EXCEPT !.binds = @ + (IF case.bound THEN 1 ELSE 0),
                                 !.calls = @ + (IF case.called THEN 1 ELSE 0)]
    /\ UNCHANGED <<pc, request, host, resolvedCallable, signature, verdict, probe>>

\* the Verdict of the gathered results
Aggregate(runtime) ==
    Verdict(StatusOf(results), runtime, CountPassed(results), Len(results), results)

\* runJavascriptAgainstTestCases after the map
JavascriptFinish ==
    /\ pc = "javascript"
    /\ ~MoreCases(results, request.testCases)
    /\ \E runtime \in 0..MaxElapsed : verdict' = Aggregate(runtime)
    /\ pc' = "done"
    /\ UNCHANGED <<request, host, resolvedCallable, calls, signature, results, ops, trace, server,
                    probe>>

\* runPythonAgainstTestCases up to the map: the signature is looked for
PythonSignature ==
    /\ pc = "run"
    /\ request.mode # "execution_only"
    /\ request.language = "python"
    /\ signature' = findPythonFunctionSignature(request.code)
    /\ pc' = "python"
    /\ UNCHANGED <<request, host, resolvedCallable, calls, results, verdict, ops, trace, server,
                    probe>>

\* runPythonAgainstTestCases: the next test case of the map
PythonCase ==
    /\ pc = "python"
    /\ MoreCases(results, request.testCases)
    /\ \E case \in {PyCase(host, request.code, signature, request.expectedFunctionName,
                             request.testCases[Len(results) + 1], request.mode)} :
           /\ results' = Append(results, case.result)
           /\ trace' = Append(trace, [case EXCEPT !.result = 0])
           /\ ops' = [ops EXCEPT !.binds = @ + (IF case.bound THEN 1 ELSE 0),
                                 !.spawns = @ + case.spawns,
                                 !.loads = @ + (IF case.spawns > 0
                                                   /\ FirstInterpreter(host, 1).outcome
                                                          = "started"
                                                THEN 1 ELSE 0)]
    /\ UNCHANGED <<pc, request, host, resolvedCallable, calls, signature, verdict, server,
                    probe>>

\* runPythonAgainstTestCases after the map
PythonFinish ==
    /\ pc = "python"
    /\ ~MoreCases(results, request.testCases)
    /\ \E runtime \in 0..MaxElapsed : verdict' = Aggregate(runtime)
    /\ pc' = "done"
    /\ UNCHANGED <<request, host, resolvedCallable, calls, signature, results, ops, trace, server,
                    probe>>

\* the Verdict has been returned: nothing of the run is kept
Return ==
    /\ pc = "done"
    /\ pc' = "idle"
    /\ request' = NoRequest
    /\ resolvedCallable' = NotResolved
    /\ calls' = 0
    /\ signature' = NoMatch
    /\ results' = <<>>
    /\ verdict' = NoVerdict
    /\ ops' = NoOps
    /\ trace' = <<>>
    /\ UNCHANGED <<host, server, probe>>

Next ==
    \/ Invoke
    \/ JavascriptExecutionOnly
    \/ PythonExecutionOnly
    \/ JavascriptResolve
    \/ JavascriptCase
    \/ JavascriptFinish
    \/ PythonSignature
    \/ PythonCase
    \/ PythonFinish
    \/ Return

Spec == Init /\ [][Next]_vars

(***************************************************************************)
(* The resolver on its own: runJavascriptAgainstTestCases up to the map,   *)
(* over every program of at most MaxDecls declarations.                    *)
(***************************************************************************)
ResolverDecls ==
    { Fn("function", "function", "twoSum", <<"nums", "target">>, "top", "pair"),
      Fn("function", "function", "helper", <<"a">>, "inner", "first"),
      Fn("arrow", "const", "pick", <<"x">>, "top", "first"),
      Fn("fnexpr", "var", "solve", <<"x">>, "top", "first"),
      Fn("arrow1", "let", "one", <<"x">>, "top", "first"),
      Fn("assign", "none", "tally", <<>>, "top", "count"),
      Fn("assign", "none", "score", <<"x">>, "top", "first"),
      Fn("proto", "none", "main", <<"x">>, "top", "first"),
      Class("Solution", <<Method("twoSum", <<"nums", "target">>, "pair")>>),
      Class("Counter", <<Method("constructor", <<>>, "nothing"),
                         Method("next", <<"x">>, "first")>>),
      Class("Helped", <<Method("_prepare", <<"raw">>, "nothing"),
                        Method("answer", <<"x">>, "first")>>),
      Class("Empty", <<>>) }

\* the most declarations a program of the resolver runs has
MaxDecls == 2

DeclLists ==
    UNION { {decls \in [1..n -> ResolverDecls] :
                \A i, j \in 1..n : i < j => decls[i].name # decls[j].name} :
            n \in 0..MaxDecls }

ResolverPrograms ==
    {JsCode(TRUE, decls, "ok", exports, "nothing") :
        decls \in DeclLists, exports \in {"object", "function", "default"}}
    \cup {JsCode(FALSE, <<>>, "ok", "object", "none"),
          JsCode(TRUE, <<>>, "throw", "object", "none"),
          JsCode(TRUE, <<>>, "loop", "object", "none")}

ResolverNames == {NoName, "twoSum", "main"}

InitResolve ==
    /\ pc = "run"
    /\ \E code \in ResolverPrograms, expectedFunctionName \in ResolverNames :
          request = [code |-> code, testCases |-> <<>>, language |-> "javascript",
                     expectedFunctionName |-> expectedFunctionName, mode |-> "strict"]
    /\ host = "python"
    /\ resolvedCallable = NotResolved
    /\ calls = 0
    /\ signature = NoMatch
    /\ results = <<>>
    /\ verdict = NoVerdict
    /\ ops = NoOps
    /\ trace = <<>>
    /\ server = NoServer
    /\ probe = NoProbe

NextResolve == JavascriptResolve

SpecResolve == InitResolve /\ [][NextResolve]_vars

(***************************************************************************)
(* Properties of the Verdict returned by runAgainstTestCases               *)
(***************************************************************************)
Returning == pc = "done"
Strict == request.mode = "strict"
ExecutionOnly == request.mode = "execution_only"
Javascript == request.language = "javascript"
Python == request.language = "python"

Cases(v) == 1..Len(v.results)
CarriesError(v) == \E i \in Cases(v) : v.results[i].hasError
NumberPassed(v) == Cardinality({i \in Cases(v) : v.results[i].passed})

\* the strict JavaScript run returned the fatal result
ResolutionFailed == Returning /\ Javascript /\ Strict /\ ~resolvedCallable.ok

\* C1: every Verdict returned (either language, either mode, any list of test
\* cases, the resolution failure included) has status Accepted if and only if
\* passed = total.  The code does not keep this: see C1_EmptyFatalVerdict.
C1_AcceptedIffAllPassed ==
    Returning => (verdict.status = "Accepted" <=> verdict.passed = verdict.total)

\* the Verdict that breaks C1: resolution failed on an empty list of test cases
C1_EmptyFatalVerdict ==
    /\ ResolutionFailed
    /\ request.testCases = <<>>
    /\ verdict.passed = verdict.total
    /\ verdict.status = "Runtime Error"

\* C2: in Strict mode, if at least one test case ends in an error, whatever
\* its message (the empty message included), the status is Runtime Error.
\* The code does not keep this: see C2_EmptyMessageVerdict.
C2_StrictErrorIsRuntimeError ==
    (Returning /\ Strict /\ CarriesError(verdict)) => verdict.status = "Runtime Error"

\* the Verdict that breaks C2: the only errors have the empty message
C2_EmptyMessageVerdict ==
    /\ Returning /\ Strict /\ Python
    /\ \E i \in Cases(verdict) : verdict.results[i].hasError /\ verdict.results[i].error = ""
    /\ verdict.status = "Wrong Answer"

C4_MismatchIsWrongAnswer ==
    (/\ Returning /\ Strict
     /\ ~CarriesError(verdict)
     /\ \E i \in Cases(verdict) : ~verdict.results[i].passed)
        => verdict.status = "Wrong Answer"

\* a strict run without errors in which one case passed and another did not
C4_MixedRunWithoutError ==
    /\ Returning /\ Strict
    /\ ~CarriesError(verdict)
    /\ \E i, j \in Cases(verdict) : verdict.results[i].passed /\ ~verdict.results[j].passed
    /\ verdict.status = "Wrong Answer"

\* C5: every Verdict has total = the length of results and passed = the number
\* of CaseResults with passed = true, on the strict paths, the resolution
\* failure path and both execution-only paths.
C5_CountersConsistent ==
    Returning => /\ verdict.total = Len(verdict.results)
                 /\ verdict.passed = NumberPassed(verdict)

\* a strict run of two cases: one produced a value that differs, one passed
C5_PartlyPassedRun ==
    /\ Returning /\ Strict
    /\ verdict.total = 2 /\ verdict.passed = 1
    /\ \A i \in Cases(verdict) : verdict.results[i].hasActual

(***************************************************************************)
(* Properties of the CaseResults of a strict run                           *)
(***************************************************************************)
\* the map took case i, its call returned and its expected output was parsed
Completed(i) == i <= Len(trace) /\ trace[i].returned /\ trace[i].parsed

\* in case i the interpreter started and the code ended the process itself,
\* with exit status 0, before the companion script called anything
EndedItself(i) ==
    /\ Python /\ FirstInterpreter(host, 1).outcome = "started"
    /\ request.code.syntaxOk /\ request.code.top = "forge"
    /\ i <= Len(trace) /\ trace[i].called

\* the map took case i and one of its steps failed
CaseFailed(i) ==
    i <= Len(trace) /\ ~(trace[i].returned /\ trace[i].parsed) /\ ~EndedItself(i)

\* C6: in Strict mode a CaseResult has passed = true if and only if the bound
\* call completed without error and normalize(actual value) equals
\* normalize(parsed expected output); the expected and actual fields of such a
\* CaseResult hold the canonical strings, not the text of the fixture.  The
\* code does not keep this: see C6_CorrectAnswerRejected.
C6_PassedIffCanonicalEqual ==
    (Returning /\ Strict) =>
        \A i \in Cases(verdict) :
            LET result == verdict.results[i]
            IN  /\ result.passed <=>
                       /\ Completed(i)
                       /\ normalize(trace[i].actualValue) = normalize(trace[i].expectedValue)
                /\ result.passed =>
                       /\ result.hasActual
                       /\ result.expected = normalize(trace[i].expectedValue)
                       /\ result.actual = normalize(trace[i].actualValue)

\* the Verdict that breaks C6: the entry point returned the expected value
\* after it had written a line to stdout, and the case is recorded as failed
C6_CorrectAnswerRejected ==
    /\ Returning /\ Strict /\ Python
    /\ \E i \in Cases(verdict) :
          /\ Completed(i)
          /\ normalize(trace[i].actualValue) = normalize(trace[i].expectedValue)
          /\ ~verdict.results[i].passed
          /\ verdict.results[i].error = "Invalid Python runner response."

\* C16: what the submitted code writes to console or stdout is never taken as
\* the result of a test case: in Strict mode, for both runners, a CaseResult
\* that carries an actual value carries the canonical form of the value the
\* resolved function returned in that case.  The code does not keep this:
\* see C16_PrintedDocumentTakenAsResult.
C16_ActualIsTheReturnedValue ==
    (Returning /\ Strict) =>
        \A i \in Cases(verdict) :
            verdict.results[i].hasActual =>
                /\ Completed(i)
                /\ verdict.results[i].actual = normalize(trace[i].actualValue)

\* the Verdict that breaks C16: no function was called in the case, and the
\* document the code printed before it ended the process is the actual value
C16_PrintedDocumentTakenAsResult ==
    /\ Returning /\ Strict /\ Python
    /\ \E i \in Cases(verdict) :
          /\ ~trace[i].returned
          /\ trace[i].spawns > 0
          /\ verdict.results[i].hasActual
          /\ verdict.results[i].actual = normalize(Forged)
          /\ verdict.results[i].passed

\* C7: in Strict mode, in-process, if resolution fails (the code does not
\* compile, throws or times out while loading, or has no callable) no test
\* case is executed and the Verdict has total = the number of test cases,
\* passed = 0, status Runtime Error, and every CaseResult has passed = false
\* and the same message, the one of the resolution failure.
C7_ResolutionFailureVerdict ==
    ResolutionFailed =>
        /\ trace = <<>> /\ results = <<>>
        /\ ops.binds = 0 /\ ops.calls = 0
        /\ verdict.total = Len(request.testCases)
        /\ Len(verdict.results) = Len(request.testCases)
        /\ verdict.passed = 0
        /\ verdict.status = "Runtime Error"
        /\ \A i \in Cases(verdict) :
              /\ ~verdict.results[i].passed
              /\ verdict.results[i].hasError
              /\ verdict.results[i].error = verdict.results[1].error
              /\ verdict.results[i].error =
                     (IF resolvedCallable.err.isError THEN resolvedCallable.err.message
                      ELSE "Execution error")

\* resolution found no callable in code that loads, over two test cases
C7_NoCallableOverTwoCases ==
    /\ ResolutionFailed
    /\ resolvedCallable.via = 434
    /\ verdict.total = 2
    /\ verdict.results[2].error = "No callable solution function found."

\* C8: in a Strict run a test case whose parse, bind or run step fails is
\* recorded as a CaseResult with passed = false and an error, and every later
\* test case is still processed: results has one entry per test case, in the
\* order of the test cases, with results[i].input = testCases[i].input.
C8_FailedCaseDoesNotStopTheRun ==
    (Returning /\ Strict) =>
        /\ Len(verdict.results) = Len(request.testCases)
        /\ ~ResolutionFailed => Len(trace) = Len(request.testCases)
        /\ \A i \in Cases(verdict) :
              /\ verdict.results[i].input = request.testCases[i].input
              /\ CaseFailed(i) => ~verdict.results[i].passed /\ verdict.results[i].hasError

\* the first case failed, the second was called and passed
C8_PassedAfterFailedCase ==
    /\ Returning /\ Strict
    /\ Len(verdict.results) = 2
    /\ CaseFailed(1) /\ verdict.results[1].hasError
    /\ trace[2].called /\ verdict.results[2].passed

(***************************************************************************)
(* The order of resolveJavascriptCallable                                  *)
(***************************************************************************)
\* typeof globalThis[d.name] === "function" because of declaration d
MakesGlobalFunction(d) ==
    /\ d.scope = "top"
    /\ \/ d.form \in {"function", "assign", "proto"}
       \/ d.form \in {"arrow", "fnexpr", "arrow1"} /\ d.kw = "var"

\* the condition of step k of the resolver, read from the declarations
StepMatches(k, code, name) ==
    LET decls == {code.decls[i] : i \in 1..Len(code.decls)}
        signature_ == findFunctionSignature(code)
        classMethod == findJsClassMethodSignature(code)
    IN  CASE k = 1 -> name # NoName /\ \E d \in decls : MakesGlobalFunction(d) /\ d.name = name
          [] k = 2 -> /\ signature_.found
                      /\ \E d \in decls : d.scope = "top" /\ d.name = signature_.name
          [] k = 3 -> /\ classMethod.found
                      /\ \E d \in decls : d.scope = "top" /\ d.name = classMethod.className
          [] k = 4 -> \E d \in decls : MakesGlobalFunction(d) /\ d.form # "proto"
          [] k = 5 -> \E d \in decls :
                         MakesGlobalFunction(d) /\ d.name \in {"solve", "solution", "main"}
          [] k = 6 -> code.exports = "function"
          [] k = 7 -> code.exports = "default"

\* the return statement of each step
StepReturn == <<293, 314, 336, 369, 391, 410, 428>>

\* what step k binds __solution to
StepBinds(k, code, name, solution) ==
    CASE k = 1 -> solution = GlobalFn(name)
      [] k = 2 -> solution = NamedFn(findFunctionSignature(code).name)
      [] k = 3 -> solution = ClassCall(findJsClassMethodSignature(code).className,
                                       findJsClassMethodSignature(code).methodName)
      [] k = 4 -> /\ solution.kind = "globalThis"
                  /\ \E i \in 1..Len(code.decls) :
                        /\ MakesGlobalFunction(code.decls[i])
                        /\ code.decls[i].form # "proto"
                        /\ code.decls[i].name = solution.name
      [] k = 5 -> solution.kind = "globalThis" /\ solution.name \in {"solve", "solution", "main"}
      [] k = 6 -> solution = ModuleExports
      [] k = 7 -> solution = ModuleExportsDefault

\* the resolver has run on code that loads
ResolverReturned ==
    /\ pc \in {"javascript", "done"} /\ Javascript /\ Strict
    /\ request.code.syntaxOk /\ request.code.top = "ok"

\* C9: resolveJavascriptCallable tries (1) the expected function name, (2) the
\* named function found in the text, (3) a class with a method, (4) a new
\* top-level callable, (5) solve / solution / main, (6) a callable
\* module.exports, then a callable module.exports.default, (7) failure; the
\* entry point bound is the one of the first step whose condition holds, and
\* a later step is reached only when no earlier step matched.
C9_FirstMatchingStepBinds ==
    ResolverReturned =>
        LET matching == {k \in 1..7 : StepMatches(k, request.code,
                                                  request.expectedFunctionName)}
        IN  IF matching = {}
            THEN ~resolvedCallable.ok /\ resolvedCallable.via = 434
            ELSE \E k \in matching :
                    /\ \A j \in matching : k <= j
                    /\ resolvedCallable.ok
                    /\ resolvedCallable.via = StepReturn[k]
                    /\ StepBinds(k, request.code, request.expectedFunctionName,
                                 resolvedCallable.solution)

\* the class step bound the entry point though two later steps match as well
C9_ClassBoundBeforeLaterSteps ==
    /\ ResolverReturned
    /\ resolvedCallable.via = 336
    /\ StepMatches(4, request.code, request.expectedFunctionName)
    /\ StepMatches(6, request.code, request.expectedFunctionName)

(***************************************************************************)
(* Execution-only runs                                                     *)
(***************************************************************************)
\* loading the code, or running it as a script, ends without an error
RunsClean ==
    /\ request.code.syntaxOk
    /\ request.code.top \in {"ok", "forge", "exit"}
    /\ Python => FirstInterpreter(host, 1).outcome = "started"

\* C10: in ExecutionOnly mode runAgainstTestCases performs no resolution, no
\* argument binding and no call; the verdict depends only on whether loading
\* the code (in-process) or running it as a script (out-of-process) failed, so
\* code that defines no callable can be Accepted.
C10_ExecutionOnlyOnlyLoads ==
    (Returning /\ ExecutionOnly) =>
        /\ ops.resolutions = 0 /\ ops.binds = 0 /\ ops.calls = 0
        /\ trace = <<>>
        /\ resolvedCallable = NotResolved /\ signature = NoMatch
        /\ verdict.status = (IF RunsClean THEN "Accepted" ELSE "Runtime Error")

\* code without a callable is Accepted in ExecutionOnly mode
C10_AcceptedWithoutCallable ==
    /\ Returning /\ ExecutionOnly /\ Javascript
    /\ verdict.status = "Accepted"
    /\ ~resolveJavascriptCallable(request.code, request.expectedFunctionName).ok

\* C11: an ExecutionOnly Verdict is all-or-nothing: total is the number of
\* test cases, 1 when there are none, and either every CaseResult has passed
\* = true and the status is Accepted, or every CaseResult has passed = false
\* and the same error and the status is Runtime Error; the latter whenever the
\* code throws at top level, exits non-zero, times out or no interpreter is
\* found.
C11_ExecutionOnlyAllOrNothing ==
    (Returning /\ ExecutionOnly) =>
        /\ verdict.total = (IF request.testCases = <<>> THEN 1 ELSE Len(request.testCases))
        /\ Len(verdict.results) = verdict.total
        /\ \/ /\ verdict.status = "Accepted"
              /\ verdict.passed = verdict.total
              /\ \A i \in Cases(verdict) :
                    verdict.results[i].passed /\ ~verdict.results[i].hasError
           \/ /\ verdict.status = "Runtime Error"
              /\ verdict.passed = 0
              /\ \A i \in Cases(verdict) :
                    /\ ~verdict.results[i].passed
                    /\ verdict.results[i].hasError
                    /\ verdict.results[i].error = verdict.results[1].error
        /\ ~RunsClean => verdict.status = "Runtime Error"

\* a problem without test cases, code that fails: the one synthetic case failed
C11_SyntheticCaseFailed ==
    /\ Returning /\ ExecutionOnly
    /\ request.testCases = <<>>
    /\ verdict.total = 1
    /\ verdict.results[1].input = "execution-only"
    /\ verdict.results[1].hasError

(***************************************************************************)
(* normalizeValue and normalize on their own, over the values of at most   *)
(* MaxWidth elements nested in two more levels of arrays and objects.      *)
(***************************************************************************)
\* the most elements an array of the values has
MaxWidth == 2

Scalars == {Num(0), Num(1), Str("a"), Bool(TRUE), Null, Undefined}

PropertyNames == {"a", "b"}

\* the sequences of at most n elements of S
SeqsUpTo(S, n) == UNION {[1..k -> S] : k \in 0..n}

\* the arrays of elements of S and the objects with values of S
ArraysOf(S) == {Arr(items) : items \in SeqsUpTo(S, MaxWidth)}
ObjectsOf(S) ==
    {Obj(<<>>)}
    \cup {Obj(<< <<k, v>> >>) : k \in PropertyNames, v \in S}
    \cup {Obj(<< <<kk[1], v1>>, <<kk[2], v2>> >>) :
             kk \in {pair \in PropertyNames \X PropertyNames : pair[1] # pair[2]},
             v1 \in S, v2 \in S}

FlatValues == Scalars \cup ArraysOf(Scalars) \cup ObjectsOf(Scalars)

\* the values of S, each also as the element of an array and as the value of
\* a property, alone and beside a number
Nested(S) ==
    S \cup {Arr(<<v>>) : v \in S}
      \cup {Arr(<<Num(1), v>>) : v \in S}
      \cup {Obj(<< <<"k", v>> >>) : v \in S}
      \cup {Obj(<< <<"z", Num(1)>>, <<"k", v>> >>) : v \in S}

NormalizeValues == Nested(Nested(FlatValues))

Reverse(seq) == [i \in 1..Len(seq) |-> seq[Len(seq) + 1 - i]]
Rotate(seq) == IF Len(seq) = 0 THEN seq ELSE Append(Tail(seq), Head(seq))
Reordered(seq, how) == IF how = "reverse" THEN Reverse(seq) ELSE Rotate(seq)

\* value with the properties of every object at nesting level `level` put in
\* another insertion order (what: "keys"), or the elements of every array at
\* that level put in another order (what: "items")
RECURSIVE ReorderAt(_, _, _, _)
ReorderAt(value, level, what, how) ==
    IF level = 0
    THEN IF value.t = "object" /\ what = "keys" THEN Obj(Reordered(value.v, how))
         ELSE IF value.t = "array" /\ what = "items" THEN Arr(Reordered(value.v, how))
         ELSE value
    ELSE CASE value.t = "array" ->
                 Arr([i \in 1..Len(value.v) |-> ReorderAt(value.v[i], level - 1, what, how)])
           [] value.t = "object" ->
                 Obj([i \in 1..Len(value.v) |->
                         <<value.v[i][1], ReorderAt(value.v[i][2], level - 1, what, how)>>])
           [] OTHER -> value

\* the nesting levels of the values
Levels == 0..2

InitNormalize ==
    /\ pc = "idle"
    /\ request = NoRequest
    /\ host = "python"
    /\ resolvedCallable = NotResolved
    /\ calls = 0
    /\ signature = NoMatch
    /\ results = <<>>
    /\ verdict = NoVerdict
    /\ ops = NoOps
    /\ trace = <<>>
    /\ server = NoServer
    /\ \E value \in NormalizeValues :
          probe = [of |-> "normalize", value |-> value, variant |-> value,
                   reordered |-> "nothing", returned |-> FALSE]

judgeVars == <<pc, request, host, resolvedCallable, calls, signature, results, verdict, ops,
               trace, server>>

\* a second value is made of the first: the same properties in another
\* insertion order, or the same elements in another order
Reorder ==
    /\ probe.of = "normalize" /\ ~probe.returned
    /\ \E what \in {"keys", "items"}, level \in Levels, how \in {"reverse", "rotate"} :
          /\ probe.reordered \in {"nothing", what}
          /\ ReorderAt(probe.variant, level, what, how) # probe.variant
          /\ probe' = [probe EXCEPT !.variant = ReorderAt(probe.variant, level, what, how),
                                    !.reordered = what]
    /\ UNCHANGED judgeVars

\* normalizeValue is applied to the value, and again to its result; normalize
\* is applied to the value and to the second value
Normalize ==
    /\ probe.of = "normalize" /\ ~probe.returned
    /\ probe' = [of |-> "normalize", value |-> probe.value, variant |-> probe.variant,
                 reordered |-> probe.reordered, returned |-> TRUE,
                 once |-> normalizeValue(probe.value),
                 twice |-> normalizeValue(normalizeValue(probe.value)),
                 text |-> normalize(probe.value),
                 variantText |-> normalize(probe.variant)]
    /\ UNCHANGED judgeVars

NextNormalize == Reorder \/ Normalize

SpecNormalize == InitNormalize /\ [][NextNormalize]_vars

(***************************************************************************)
(* Properties of normalizeValue and normalize                              *)
(***************************************************************************)
Normalized == probe.of = "normalize" /\ probe.returned

\* the two values are the same but for the insertion order of properties
RECURSIVE EqualUpToKeyOrder(_, _)
EqualUpToKeyOrder(v, w) ==
    IF v.t # w.t THEN FALSE
    ELSE CASE v.t = "array" ->
                 /\ Len(v.v) = Len(w.v)
                 /\ \A i \in 1..Len(v.v) : EqualUpToKeyOrder(v.v[i], w.v[i])
           [] v.t = "object" ->
                 /\ Len(v.v) = Len(w.v)
                 /\ \A i \in 1..Len(v.v) : \E j \in 1..Len(w.v) :
                       /\ v.v[i][1] = w.v[j][1]
                       /\ EqualUpToKeyOrder(v.v[i][2], w.v[j][2])
           [] OTHER -> v = w

\* the value undefined occurs in the value
RECURSIVE HoldsUndefined(_)
HoldsUndefined(v) ==
    CASE v.t = "undefined" -> TRUE
      [] v.t = "array" -> \E i \in 1..Len(v.v) : HoldsUndefined(v.v[i])
      [] v.t = "object" -> \E i \in 1..Len(v.v) : HoldsUndefined(v.v[i][2])
      [] OTHER -> FALSE

\* C12: normalize is insensitive to the order of object keys and sensitive to
\* the order of array elements, at every nesting depth: two values that differ
\* only in the insertion order of keys have equal strings, two arrays of the
\* same elements in another order, where the elements differ, have different
\* strings.  The code does not keep the second half: see
\* C12_UndefinedAndNullSwapped.
C12_KeyOrderFreeItemOrderKept ==
    Normalized =>
        /\ probe.reordered = "keys" => probe.text = probe.variantText
        /\ (probe.reordered = "items" /\ ~EqualUpToKeyOrder(probe.value, probe.variant))
              => probe.text # probe.variantText

\* the arrays that break C12: [undefined, null] and [null, undefined]
C12_UndefinedAndNullSwapped ==
    /\ Normalized
    /\ probe.value = Arr(<<Undefined, Null>>)
    /\ probe.variant = Arr(<<Null, Undefined>>)
    /\ probe.text = "[null,null]"
    /\ probe.variantText = "[null,null]"

\* C13: normalizeValue is idempotent on the values built from numbers,
\* booleans, null, strings, arrays and plain objects, and scalars pass through
\* unchanged.
C13_NormalizeValueIdempotent ==
    (Normalized /\ ~HoldsUndefined(probe.value)) =>
        /\ probe.twice = probe.once
        /\ probe.value \in Scalars => probe.once = probe.value

\* an object nested in an array whose keys normalizeValue had to put in order
C13_NestedKeysSorted ==
    /\ Normalized /\ ~HoldsUndefined(probe.value)
    /\ probe.value.t = "array"
    /\ probe.once # probe.value
    /\ probe.twice = probe.once

(***************************************************************************)
(* Time limits                                                             *)
(***************************************************************************)
Statuses == {"Accepted", "Wrong Answer", "Runtime Error"}

\* C18: a timeout is reported like a thrown runtime error: a test case whose
\* call or whose literal parsing exceeds its time limit gives a CaseResult
\* with passed = false and an error, the other cases are still run, and the
\* status of the Verdict is one of Accepted, Wrong Answer, Runtime Error; a
\* timeout while the code is loaded during resolution gives the all-failing
\* Verdict of a failed resolution.
C18_TimeoutIsRuntimeError ==
    (Returning /\ Strict) =>
        /\ verdict.status \in Statuses
        /\ Len(verdict.results) = Len(request.testCases)
        /\ ~ResolutionFailed => Len(trace) = Len(request.testCases)
        /\ \A i \in 1..Len(trace) :
              trace[i].timedOut =>
                  /\ ~verdict.results[i].passed
                  /\ verdict.results[i].hasError /\ verdict.results[i].error # ""
                  /\ verdict.status = "Runtime Error"
        /\ (ResolutionFailed /\ resolvedCallable.err = TimedOut) =>
              /\ verdict.passed = 0 /\ verdict.total = Len(request.testCases)
              /\ verdict.status = "Runtime Error"
              /\ \A i \in Cases(verdict) :
                    /\ ~verdict.results[i].passed
                    /\ verdict.results[i].error = TimedOut.message

\* the first case timed out, in its call or in the parsing of its expected
\* output, and the second case passed
C18_PassedAfterTimeout ==
    /\ Returning /\ Strict
    /\ Len(trace) = 2
    /\ trace[1].timedOut /\ verdict.results[1].hasError
    /\ verdict.results[2].passed
    /\ verdict.status = "Runtime Error"

(***************************************************************************)
(* The interpreter fallback                                                 *)
(***************************************************************************)
\* the process that runs the code of the request, if one starts
Started == IF host = "python" THEN "python" ELSE IF host = "py" THEN "py" ELSE "none"

\* what one walk through the attempts must give on the host: the number of
\* processes asked for and, when none starts, the error
SpawnsOnHost == IF host \in {"python", "denied"} THEN 1 ELSE 2
ErrorOnHost == IF host = "none" THEN RuntimeNotFound ELSE "spawnSync python EACCES"

\* C17: the Python runners try python, then py -3; py is tried only when
\* python is not found (ENOENT); if neither is found the case, or the whole
\* execution-only run, fails with RuntimeNotFound; any other spawn error, an
\* empty output or an unparsable output of the first interpreter that
\* started is returned as a failure and the next name is not tried.
C17_NextInterpreterOnlyWhenNotFound ==
    (Returning /\ Python) =>
        /\ Strict =>
               \A i \in Cases(verdict) :
                   trace[i].called =>
                       /\ trace[i].spawns = SpawnsOnHost
                       /\ Started = "none" =>
                              /\ ~verdict.results[i].passed
                              /\ verdict.results[i].error = ErrorOnHost
                       /\ (Started # "none" /\ request.code.syntaxOk
                              /\ request.code.top \in {"exit", "loop"}) =>
                              /\ ~verdict.results[i].passed
                              /\ verdict.results[i].hasError
        /\ ExecutionOnly =>
               /\ ops.spawns = SpawnsOnHost
               /\ Started = "none" =>
                      \A i \in Cases(verdict) :
                          /\ ~verdict.results[i].passed
                          /\ verdict.results[i].error = ErrorOnHost

\* python could not be spawned for a reason other than ENOENT: the case failed
\* with that error after one attempt, although py would have started
C17_SpawnErrorReturnedAtOnce ==
    /\ Returning /\ Python /\ Strict
    /\ host = "denied" /\ spawnSync(host, "py") = "started"
    /\ \E i \in Cases(verdict) :
          /\ trace[i].called /\ trace[i].spawns = 1
          /\ verdict.results[i].error = "spawnSync python EACCES"

(***************************************************************************)
(* buildCallArgs on its own, over parameter lists, input maps and input    *)
(* orders of at most MaxArgs names.                                        *)
(***************************************************************************)
\* the most names a parameter list, an input map or an input order has
MaxArgs == 2

ArgNames == {"a", "b", "c"}

\* the value a fixture gives a name
FixtureValue(name) == Str(name \o "!")

DistinctNames(n) ==
    {names \in SeqsUpTo(ArgNames, n) :
        \A i, j \in 1..Len(names) : i < j => names[i] # names[j]}

\* the object parseAssignments returns for the names, in their order
InputMap(names) == [i \in 1..Len(names) |-> <<names[i], FixtureValue(names[i])>>]

InitBind ==
    /\ pc = "idle"
    /\ request = NoRequest
    /\ host = "python"
    /\ resolvedCallable = NotResolved
    /\ calls = 0
    /\ signature = NoMatch
    /\ results = <<>>
    /\ verdict = NoVerdict
    /\ ops = NoOps
    /\ trace = <<>>
    /\ server = NoServer
    /\ \E signatureArgs \in SeqsUpTo(ArgNames, MaxArgs),
          mapped \in DistinctNames(MaxArgs),
          inputOrder \in DistinctNames(MaxArgs),
          fallbackArity \in 0..MaxArgs :
          probe = [of |-> "buildCallArgs", signatureArgs |-> signatureArgs,
                   inputByName |-> InputMap(mapped), inputOrder |-> inputOrder,
                   fallbackArity |-> fallbackArity, returned |-> FALSE]

Bind ==
    /\ probe.of = "buildCallArgs" /\ ~probe.returned
    /\ probe' = [of |-> "buildCallArgs", signatureArgs |-> probe.signatureArgs,
                 inputByName |-> probe.inputByName, inputOrder |-> probe.inputOrder,
                 fallbackArity |-> probe.fallbackArity, returned |-> TRUE,
                 args |-> buildCallArgs(probe.signatureArgs, probe.inputByName,
                                        probe.inputOrder, probe.fallbackArity)]
    /\ UNCHANGED judgeVars

NextBind == Bind

SpecBind == InitBind /\ [][NextBind]_vars

(***************************************************************************)
(* Properties of buildCallArgs                                             *)
(***************************************************************************)
Bound == probe.of = "buildCallArgs" /\ probe.returned

IsKey(name) == \E k \in 1..Len(probe.inputByName) : probe.inputByName[k][1] = name
ValueOf(name) ==
    probe.inputByName[CHOOSE k \in 1..Len(probe.inputByName) :
                          probe.inputByName[k][1] = name][2]

\* the parameter list is not empty and every name of it is a key of the map
NamedPath ==
    /\ probe.signatureArgs # <<>>
    /\ \A i \in 1..Len(probe.signatureArgs) : IsKey(probe.signatureArgs[i])

\* the indices of the input order whose name is a key of the map
PresentAt == {i \in 1..Len(probe.inputOrder) : IsKey(probe.inputOrder[i])}

\* the k-th name of the input order that is a key of the map
PresentName(k) ==
    probe.inputOrder[CHOOSE i \in PresentAt : Cardinality({j \in PresentAt : j <= i}) = k]

\* C14: on the named path (the parameter list is not empty and every name is
\* a key of the parsed input) the argument list has one entry per parameter,
\* the i-th being the map value of the i-th parameter name, whatever the
\* order of the fixture and whatever fallbackArity.
C14_NamedPathBindsByName ==
    (Bound /\ NamedPath) =>
        /\ Len(probe.args) = Len(probe.signatureArgs)
        /\ \A i \in 1..Len(probe.args) : probe.args[i] = ValueOf(probe.signatureArgs[i])

\* two parameters bound by name against the order of the fixture, with a
\* fallbackArity of 1
C14_BoundAgainstFixtureOrder ==
    /\ Bound /\ NamedPath
    /\ Len(probe.signatureArgs) = 2
    /\ probe.signatureArgs[1] # probe.signatureArgs[2]
    /\ probe.inputOrder = Reverse(probe.signatureArgs)
    /\ probe.fallbackArity = 1
    /\ probe.args = <<ValueOf(probe.signatureArgs[1]), ValueOf(probe.signatureArgs[2])>>

\* C15: off the named path the argument list is a prefix of the parsed values
\* in the order of the fixture (the names that are keys of the map); with n
\* such values its length is min(n, number of parameter names) if there are
\* parameter names, min(n, fallbackArity) if there are none and fallbackArity
\* > 0, and n if there are none and fallbackArity = 0.
C15_OrderFallbackPrefix ==
    (Bound /\ ~NamedPath) =>
        LET n == Cardinality(PresentAt)
            limit == IF probe.signatureArgs # <<>> THEN Len(probe.signatureArgs)
                     ELSE IF probe.fallbackArity > 0 THEN probe.fallbackArity
                     ELSE n
        IN  /\ Len(probe.args) = (IF n < limit THEN n ELSE limit)
            /\ \A k \in 1..Len(probe.args) : probe.args[k] = ValueOf(PresentName(k))

\* no parameter names, two values, a fallbackArity of 1: the first value only
C15_CutToFallbackArity ==
    /\ Bound /\ probe.signatureArgs = <<>>
    /\ Cardinality(PresentAt) = 2
    /\ probe.fallbackArity = 1
    /\ Len(probe.args) = 1
    /\ probe.args[1] = ValueOf(probe.inputOrder[1])

(***************************************************************************)
(* The server: the handlers of POST run and POST submit in flight.  A       *)
(* handler runs until its await (storage.getProblem), later resumes and     *)
(* calls runAgainstTestCases, which has no await: the steps of the judge    *)
(* above run on the one stack of the process.                              *)
(***************************************************************************)
\* the most requests in flight
MaxHandlers == 2

NoBody == [language |-> "none", code |-> NoRequest.code]

\* what res.json sends: a message, the Verdict (execution) or the row of the
\* submission, which has a status and a runtime and no results
NoResponse ==
    [json |-> "none", message |-> "", status |-> "none", runtime |-> 0,
     hasResults |-> FALSE, results |-> <<>>]
Message(text) == [NoResponse EXCEPT !.json = "message", !.message = text]
ExecutionJson(execution) ==
    [json |-> "execution", message |-> "", status |-> execution.status,
     runtime |-> execution.runtime, hasResults |-> TRUE, results |-> execution.results]
SubmissionJson(row) ==
    [json |-> "submission", message |-> "", status |-> row.status,
     runtime |-> row.runtime, hasResults |-> FALSE, results |-> <<>>]

\* a handler: where it is, what the request carried, what it has done (the
\* outcome of the lookup, the calls of runAgainstTestCases, the Verdict, the
\* outcome of createSubmission) and what it answered
IdleHandler ==
    [at |-> "none", route |-> "none", authenticated |-> FALSE, wellFormed |-> FALSE,
     problemId |-> 0, body |-> NoBody, lookup |-> "none", runs |-> 0,
     execution |-> NoVerdict, persist |-> "none", code |-> 0, response |-> NoResponse]

\* what the requests carry: code and language
ServerBodies ==
    { [language |-> "javascript",
       code |-> Declares(Fn("function", "function", "visits", <<"x">>, "top", "hostCount"))],
      [language |-> "javascript",
       code |-> Declares(Fn("function", "function", "tally", <<"x">>, "top", "count"))],
      [language |-> "python",
       code |-> PyCode(TRUE, <<Def("pick", <<"x">>, "", "first")>>, "ok")] }

\* the problem storage.getProblem returns
ServerProblem ==
    [testCases |-> <<TestCase("x = 0", "0"), TestCase("x = 0", "1")>>,
     expectedFunctionName |-> NoName, mode |-> "strict"]

\* the ids of the problems in storage, and the ids requests ask for
KnownProblems == {1}
ProblemIds == {1, 2}

\* the stack of the process is empty: no synchronous call is running
StackEmpty == pc = "idle"

Handlers == 1..MaxHandlers

InitServer ==
    /\ pc = "idle"
    /\ request = NoRequest
    /\ host = "python"
    /\ resolvedCallable = NotResolved
    /\ calls = 0
    /\ signature = NoMatch
    /\ results = <<>>
    /\ verdict = NoVerdict
    /\ ops = NoOps
    /\ trace = <<>>
    /\ server = [handlers |-> [h \in Handlers |-> IdleHandler], realm |-> 0,
                 submissions |-> <<>>]
    /\ probe = NoProbe

\* a variant that asks every route for a session
RequiresAuthentication_Always(route) == TRUE

\* if (!req.isAuthenticated()) is the first statement of the submit handler;
\* the run handler has none
RequiresAuthentication(route) == route = "submit"

\* a variant in which the run handler stores its Verdict too
Persists_Always(route) == TRUE

\* storage.createSubmission is called by the submit handler only
Persists(route) == route = "submit"

\* the handler ends with res.status(code).json(response)
Answered(handler, code, response) ==
    [handler EXCEPT !.at = "done", !.code = code, !.response = response]

\* a request arrives and is given the next handler (the handlers are numbered
\* in the order of arrival; a body that cannot be parsed has no code and no
\* problemId to read).  submit checks req.isAuthenticated() first; both parse
\* the body (a ZodError gives 400) and then await storage.getProblem
Receive ==
    /\ StackEmpty
    /\ \E h \in Handlers, route \in {"run", "submit"}, authenticated \in BOOLEAN,
          wellFormed \in BOOLEAN :
       \E body \in (IF wellFormed THEN ServerBodies ELSE {NoBody}),
          problemId \in (IF wellFormed THEN ProblemIds ELSE {0}) :
          /\ server.handlers[h].at = "none"
          /\ \A k \in 1..(h - 1) : server.handlers[k].at # "none"
          /\ server' = [server EXCEPT !.handlers[h] =
                With([IdleHandler EXCEPT !.route = route,
                                          !.authenticated = authenticated,
                                          !.wellFormed = wellFormed,
                                          !.problemId = problemId, !.body = body],
                     LAMBDA handler :
                         IF RequiresAuthentication(route) /\ ~authenticated
                         THEN Answered(handler, 401, Message("Unauthorized"))
                         ELSE IF ~wellFormed
                         THEN Answered(handler, 400, Message("invalid body"))
                         ELSE [handler EXCEPT !.at = "lookup"])]
    /\ UNCHANGED <<pc, request, host, resolvedCallable, calls, signature, results, verdict,
                    ops, trace, probe>>

\* the await is over and there is no problem to judge: storage.getProblem
\* rejected (the catch answers 500) or returned undefined (404)
ResumeWithoutProblem ==
    /\ StackEmpty
    /\ \E h \in Handlers, rejected \in BOOLEAN :
          /\ server.handlers[h].at = "lookup"
          /\ rejected \/ server.handlers[h].problemId \notin KnownProblems
          /\ server' = [server EXCEPT !.handlers[h] =
                IF rejected
                THEN Answered([@ EXCEPT !.lookup = "rejected"], 500,
                              Message(IF @.route = "run" THEN "Failed to run code"
                                      ELSE "Internal Server Error"))
                ELSE Answered([@ EXCEPT !.lookup = "missing"], 404,
                              Message("Problem not found"))]
    /\ UNCHANGED <<pc, request, host, resolvedCallable, calls, signature, results, verdict,
                    ops, trace, probe>>

\* the await is over: the handler calls runAgainstTestCases
Resume ==
    /\ StackEmpty
    /\ \E h \in Handlers :
          /\ server.handlers[h].at = "lookup"
          /\ server.handlers[h].problemId \in KnownProblems
          /\ server' = [server EXCEPT !.handlers[h].at = "judging",
                                      !.handlers[h].lookup = "found",
                                      !.handlers[h].runs = @ + 1]
          /\ request' = [code |-> server.handlers[h].body.code,
                         testCases |-> ServerProblem.testCases,
                         language |-> server.handlers[h].body.language,
                         expectedFunctionName |-> ServerProblem.expectedFunctionName,
                         mode |-> ServerProblem.mode]
    /\ pc' = "run"
    /\ resolvedCallable' = NotResolved
    /\ calls' = createContext
    /\ signature' = NoMatch
    /\ results' = <<>>
    /\ verdict' = NoVerdict
    /\ ops' = NoOps
    /\ trace' = <<>>
    /\ UNCHANGED <<host, probe>>

\* runAgainstTestCases has returned.  run: res.status(200).json(execution);
\* submit: storage.createSubmission is called with the status and the runtime
\* of the Verdict, and awaited
Respond ==
    /\ pc = "done"
    /\ \E h \in Handlers :
          /\ server.handlers[h].at = "judging"
          /\ server' = [server EXCEPT !.handlers[h] =
                IF ~Persists(@.route)
                THEN Answered([@ EXCEPT !.execution = verdict], 200, ExecutionJson(verdict))
                ELSE [@ EXCEPT !.execution = verdict, !.at = "persisting"]]
    /\ pc' = "idle"
    /\ request' = NoRequest
    /\ resolvedCallable' = NotResolved
    /\ calls' = 0
    /\ signature' = NoMatch
    /\ results' = <<>>
    /\ verdict' = NoVerdict
    /\ ops' = NoOps
    /\ trace' = <<>>
    /\ UNCHANGED <<host, probe>>

\* a variant that stores a status and a runtime of its own making
SubmissionRow_Mock(id, handler) ==
    [id |-> id, problemId |-> handler.problemId, code |-> handler.body.code,
     status |-> "Accepted", runtime |-> 0]

\* the row createSubmission inserts, as it is returned
SubmissionRow(id, handler) ==
    [id |-> id, problemId |-> handler.problemId, code |-> handler.body.code,
     status |-> handler.execution.status, runtime |-> handler.execution.runtime]

\* the await of storage.createSubmission is over: the row was inserted and is
\* the body of the 201, or the insert was rejected and the catch answers 500
Persisted ==
    /\ StackEmpty
    /\ \E h \in Handlers, inserted \in BOOLEAN :
          /\ server.handlers[h].at = "persisting"
          /\ \E row \in {SubmissionRow(Len(server.submissions) + 1, server.handlers[h])} :
                server' = [server EXCEPT
                    !.submissions = IF inserted THEN Append(@, row) ELSE @,
                    !.handlers[h] =
                        IF inserted
                        THEN Answered([@ EXCEPT !.persist = "inserted"], 201,
                                      SubmissionJson(row))
                        ELSE Answered([@ EXCEPT !.persist = "rejected"], 500,
                                      Message("Internal Server Error"))]
    /\ UNCHANGED <<pc, request, host, resolvedCallable, calls, signature, results, verdict,
                    ops, trace, probe>>

NextServer ==
    \/ Receive
    \/ ResumeWithoutProblem
    \/ Resume
    \/ JavascriptResolve
    \/ JavascriptCase
    \/ JavascriptFinish
    \/ PythonSignature
    \/ PythonCase
    \/ PythonFinish
    \/ Respond
    \/ Persisted

SpecServer == InitServer /\ [][NextServer]_vars

(***************************************************************************)
(* Requests in flight                                                      *)
(***************************************************************************)
\* the handler whose call of runAgainstTestCases is running
Judging(h) == server.handlers[h].at = "judging"

\* the counters the code of the running request can read: the global of its
\* context, and the property of the global object of the host
VisibleCounters == <<calls, server.realm>>

\* C19: every request builds its own context or process, none is reused: a
\* global binding made or changed while one request was judged is not
\* visible while another is judged, so when runAgainstTestCases starts the
\* code can read nothing an earlier request wrote.  The code does not keep
\* this: see C19_HostBindingSeenByLaterRequest.
C19_NoBindingOutlivesItsRequest ==
    pc = "run" => VisibleCounters = <<0, 0>>

\* a request whose code counts its calls on the global object of the host was
\* answered with a first case that had already seen calls, made for another
\* request
C19_HostBindingSeenByLaterRequest ==
    \E h \in DOMAIN server.handlers :
        /\ server.handlers[h].at = "done"
        /\ ReachesHost(server.handlers[h].body.code)
        /\ server.handlers[h].runs = 1
        /\ server.handlers[h].execution.results[1].hasActual
        /\ server.handlers[h].execution.results[1].actual # "0"

\* the results of the map of runJavascriptAgainstTestCases from case k on, the
\* counter of the code being at counter
RECURSIVE JsResultsFrom(_, _, _, _, _, _)
JsResultsFrom(code, resolved, testCases, mode, k, counter) ==
    IF k > Len(testCases) THEN <<>>
    ELSE With(JsCase(code, resolved, testCases[k], mode, counter), LAMBDA case :
             <<case.result>> \o JsResultsFrom(code, resolved, testCases, mode, k + 1,
                                              case.calls))

\* the Verdict, but for its runtime, of the request when nothing else was ever
\* judged by the process
JudgedAlone(body) ==
    LET testCases == ServerProblem.testCases
        name == ServerProblem.expectedFunctionName
        resolved == resolveJavascriptCallable(body.code, name)
        fromJs == JsResultsFrom(body.code, resolved, testCases, ServerProblem.mode, 1, 0)
        fromPy == [k \in 1..Len(testCases) |->
                      PyCase(host, body.code, findPythonFunctionSignature(body.code), name,
                             testCases[k], ServerProblem.mode).result]
    IN  IF body.language = "python"
        THEN Verdict(StatusOf(fromPy), 0, CountPassed(fromPy), Len(fromPy), fromPy)
        ELSE IF ~resolved.ok THEN buildFatalRunResult(MessageOf(resolved.err), testCases)
        ELSE IF resolved.solution.kind = "none"
        THEN buildFatalRunResult("No callable solution function found.", testCases)
        ELSE Verdict(StatusOf(fromJs), 0, CountPassed(fromJs), Len(fromJs), fromJs)

\* while a call of runAgainstTestCases is running no step of another handler
\* is taken
JudgeRunsToCompletion ==
    (pc # "idle") =>
        \A h \in DOMAIN server.handlers :
            ~Judging(h) => server'.handlers[h] = server.handlers[h]

\* every answer is the Verdict of the request judged alone
AnswersIndependent ==
    \A h \in DOMAIN server.handlers :
        (server.handlers[h].at = "done" /\ server.handlers[h].runs = 1) =>
            [server.handlers[h].execution EXCEPT !.runtime = 0]
                = JudgedAlone(server.handlers[h].body)

\* C20: each request is judged synchronously and independently: from the start
\* of runAgainstTestCases for a request until it returns no step of another
\* handler is taken, and the Verdict of a request depends only on its code,
\* its language and its problem, not on the other requests.  The code does not
\* keep the second half: see C20_VerdictChangedByOtherRequest.
C20_SynchronousAndIndependent ==
    [][JudgeRunsToCompletion]_vars /\ []AnswersIndependent

\* two requests with the same code, language and problem were answered with
\* different Verdicts (runtime aside)
C20_VerdictChangedByOtherRequest ==
    \E h, k \in DOMAIN server.handlers :
        /\ server.handlers[h].at = "done" /\ server.handlers[k].at = "done"
        /\ server.handlers[h].body = server.handlers[k].body
        /\ server.handlers[h].runs = 1 /\ server.handlers[k].runs = 1
        /\ server.handlers[h].execution.status = "Accepted"
        /\ server.handlers[k].execution.status # "Accepted"

\* while one request was being judged another had been received and was
\* waiting for its turn
C20_RequestWaitsForTheJudge ==
    \E h, k \in DOMAIN server.handlers :
        /\ Judging(h) /\ pc = "javascript" /\ Len(results) = 1
        /\ server.handlers[k].at = "lookup"

(***************************************************************************)
(* The answers of the handlers                                             *)
(***************************************************************************)
Handler(h) == server.handlers[h]
Finished(h) == Handler(h).at = "done"
Unknown(h) == Handler(h).problemId \notin KnownProblems

RowsOf(h) ==
    {i \in 1..Len(server.submissions) :
        /\ server.submissions[i].problemId = Handler(h).problemId
        /\ server.submissions[i].code = Handler(h).body.code
        /\ server.submissions[i].status = Handler(h).execution.status
        /\ server.submissions[i].runtime = Handler(h).execution.runtime}

\* nothing was looked up, executed or stored for the request of handler h
NothingDone(h) ==
    Handler(h).lookup = "none" /\ Handler(h).runs = 0 /\ Handler(h).persist = "none"

\* there are as many rows as handlers whose insert went through
OneRowPerInsert ==
    Len(server.submissions)
        = Cardinality({h \in DOMAIN server.handlers : Handler(h).persist = "inserted"})

CarriesBreakdown(h) ==
    /\ Handler(h).response.hasResults
    /\ Handler(h).response.status = Handler(h).execution.status
    /\ Handler(h).response.results = Handler(h).execution.results
    /\ Len(Handler(h).response.results) = Len(ServerProblem.testCases)

\* C23: every successful answer of run (200) and of submit (201) carries the
\* status of the Verdict and its results, one CaseResult for each case
C23_SuccessCarriesBreakdown ==
    \A h \in DOMAIN server.handlers :
        (Finished(h) /\ Handler(h).code \in {200, 201}) => CarriesBreakdown(h)

\* a run request was answered 200 with the results of its Verdict
C23_RunCarriesBreakdown ==
    \E h \in DOMAIN server.handlers :
        /\ Finished(h) /\ Handler(h).route = "run" /\ Handler(h).code = 200
        /\ CarriesBreakdown(h)

\* a submit request was judged, its Verdict has a result for each case, and
\* the answer, 201, is the stored row: a status and a runtime, no results
C23_SubmitDropsBreakdown ==
    \E h \in DOMAIN server.handlers :
        /\ Finished(h) /\ Handler(h).route = "submit" /\ Handler(h).code = 201
        /\ Len(Handler(h).execution.results) = Len(ServerProblem.testCases)
        /\ Handler(h).response.json = "submission"
        /\ ~Handler(h).response.hasResults
        /\ Handler(h).response.results = <<>>

(***************************************************************************)
(* The entry point of the companion script on its own, over code of at     *)
(* most MaxPyDefs def statements, each a top-level function or a method of *)
(* Solution with at most MaxPyParams parameters.                           *)
(***************************************************************************)
\* the most def statements the code has
MaxPyDefs == 2
\* the most parameters a def has, self not counted
MaxPyParams == 2

PyDefNames == {"solve", "aux", "_hid"}

PyParams(owner, n) ==
    (IF owner = "" THEN <<>> ELSE <<"self">>) \o [i \in 1..n |-> "p"]

PyDefs ==
    {Def(name, PyParams(owner, n), owner, "first") :
        name \in PyDefNames, owner \in {"", "Solution"}, n \in 0..MaxPyParams}

\* code that binds no name twice in the same scope
PyDefLists ==
    {defs \in SeqsUpTo(PyDefs, MaxPyDefs) :
        \A i, j \in 1..Len(defs) :
            i < j => ~(defs[i].name = defs[j].name /\ defs[i].owner = defs[j].owner)}

InitEntry ==
    /\ pc = "idle"
    /\ request = NoRequest
    /\ host = "python"
    /\ resolvedCallable = NotResolved
    /\ calls = 0
    /\ signature = NoMatch
    /\ results = <<>>
    /\ verdict = NoVerdict
    /\ ops = NoOps
    /\ trace = <<>>
    /\ server = NoServer
    /\ \E defs \in PyDefLists, functionName \in PyDefNames \cup {NoName},
          argCount \in 0..MaxPyParams :
          probe = [of |-> "PythonEntryPoint", code |-> PyCode(TRUE, defs, "ok"),
                   functionName |-> functionName, argCount |-> argCount,
                   returned |-> FALSE]

\* the script runs the code and picks fn
Pick ==
    /\ probe.of = "PythonEntryPoint" /\ ~probe.returned
    /\ probe' = [of |-> "PythonEntryPoint", code |-> probe.code,
                 functionName |-> probe.functionName, argCount |-> probe.argCount,
                 returned |-> TRUE,
                 fn |-> PythonEntryPoint(probe.code, probe.functionName, probe.argCount)]
    /\ UNCHANGED judgeVars

NextEntry == Pick

SpecEntry == InitEntry /\ [][NextEntry]_vars

(***************************************************************************)
(* Properties of the entry point                                           *)
(***************************************************************************)
Picked == probe.of = "PythonEntryPoint" /\ probe.returned

\* the top-level functions bound to the known name
NamedFunctions ==
    {i \in 1..Len(probe.code.defs) :
        /\ probe.functionName # NoName
        /\ probe.code.defs[i].owner = ""
        /\ probe.code.defs[i].name = probe.functionName}

PublicMethods ==
    {i \in 1..Len(probe.code.defs) :
        /\ probe.code.defs[i].owner = "Solution"
        /\ ~StartsWithUnderscore(probe.code.defs[i].name)}

PublicFunctions ==
    {i \in 1..Len(probe.code.defs) :
        /\ probe.code.defs[i].owner = ""
        /\ ~StartsWithUnderscore(probe.code.defs[i].name)}

Matching(indices) ==
    {i \in indices : ParameterCount(probe.code.defs[i]) = probe.argCount}

PickedFrom(indices) == \E i \in indices : probe.fn = probe.code.defs[i]

\* C24: the script picks (1) the callable bound to the known name, else (2) a
\* method of a Solution instance with as many parameters as there are
\* arguments, else (3) a top-level function with as many parameters as there
\* are arguments, else (4) any top-level function or the first method found;
\* so a top-level function with the right number of parameters is picked
\* when Solution has public methods of which none has that number
C24_EntryPointPriority ==
    Picked =>
        CASE NamedFunctions # {} -> PickedFrom(NamedFunctions)
          [] NamedFunctions = {} /\ Matching(PublicMethods) # {} ->
                PickedFrom(Matching(PublicMethods))
          [] NamedFunctions = {} /\ Matching(PublicMethods) = {}
                /\ Matching(PublicFunctions) # {} ->
                PickedFrom(Matching(PublicFunctions))
          [] OTHER ->
                IF PublicFunctions \cup PublicMethods = {} THEN probe.fn = NoDef
                ELSE PickedFrom(PublicFunctions \cup PublicMethods)

\* Solution has public methods, none with as many parameters as there are
\* arguments, a top-level function has that many, no function has the known
\* name, and the script picked a method
C24_MethodPickedBeforeMatchingFunction ==
    /\ Picked
    /\ NamedFunctions = {}
    /\ PublicMethods # {} /\ Matching(PublicMethods) = {}
    /\ Matching(PublicFunctions) # {}
    /\ PickedFrom(PublicMethods)
    /\ ParameterCount(probe.fn) # probe.argCount

\* what the script does keep: the known name first, then a method with the
\* right number of parameters, then any method, and top-level functions only
\* when Solution has no public method
C24_EntryPointOrderOfTheScript ==
    Picked =>
        CASE NamedFunctions # {} -> PickedFrom(NamedFunctions)
          [] NamedFunctions = {} /\ Matching(PublicMethods) # {} ->
                PickedFrom(Matching(PublicMethods))
          [] NamedFunctions = {} /\ Matching(PublicMethods) = {}
                /\ PublicMethods # {} -> PickedFrom(PublicMethods)
          [] NamedFunctions = {} /\ PublicMethods = {}
                /\ Matching(PublicFunctions) # {} ->
                PickedFrom(Matching(PublicFunctions))
          [] OTHER ->
                IF PublicFunctions = {} THEN probe.fn = NoDef
                ELSE PickedFrom(PublicFunctions)

(***************************************************************************)
(* The class step of the resolver                                          *)
(***************************************************************************)
\* the resolver returned at the class step
ClassBound == ResolverReturned /\ resolvedCallable.ok /\ resolvedCallable.via = 336

\* the methods of the class the resolver bound
MethodsOfBound == DeclOf(request.code, resolvedCallable.solution.name).methods

\* an instance method a caller is meant to call
IsSolutionMethod(method) ==
    method.name # "constructor" /\ ~StartsWithUnderscore(method.name)

\* C25: at the class step __solution makes a new instance and calls the first
\* method of the class whose name does not start with an underscore, never
\* the constructor and never an underscore-prefixed helper, and argNames are
\* the parameters that method declares
C25_ClassStepCallsFirstPublicMethod ==
    ClassBound =>
        /\ resolvedCallable.solution.kind = "class"
        /\ \E k \in 1..Len(MethodsOfBound) :
              /\ IsSolutionMethod(MethodsOfBound[k])
              /\ \A j \in 1..(k - 1) : ~IsSolutionMethod(MethodsOfBound[j])
              /\ resolvedCallable.solution.method = MethodsOfBound[k].name
              /\ resolvedCallable.argNames = MethodsOfBound[k].args

\* the class has a method to call after its constructor, and __solution was
\* bound to the constructor with the constructor's parameters
C25_ConstructorBound ==
    /\ ClassBound
    /\ resolvedCallable.solution.method = "constructor"
    /\ \E k \in 2..Len(MethodsOfBound) : IsSolutionMethod(MethodsOfBound[k])
    /\ resolvedCallable.argNames = MethodsOfBound[1].args

\* the class has a method to call after an underscore-prefixed helper, and
\* __solution was bound to the helper
C25_HelperBound ==
    /\ ClassBound
    /\ StartsWithUnderscore(resolvedCallable.solution.method)
    /\ \E k \in 2..Len(MethodsOfBound) : IsSolutionMethod(MethodsOfBound[k])

\* what the class step does keep: the first method header of the class body
C25_ClassStepCallsFirstHeader ==
    ClassBound =>
        /\ resolvedCallable.solution.kind = "class"
        /\ resolvedCallable.solution.method = MethodsOfBound[1].name
        /\ resolvedCallable.argNames = MethodsOfBound[1].args
        /\ resolvedCallable.fallbackArity = Len(MethodsOfBound[1].args)

(***************************************************************************)
(* The diff step of the resolver                                           *)
(***************************************************************************)
\* the positions of the declarations that leave a function in an own
\* property of globalThis the snapshot did not have
NewCallables ==
    {i \in 1..Len(request.code.decls) :
        /\ MakesGlobalFunction(request.code.decls[i])
        /\ request.code.decls[i].form # "proto"
        /\ ~Includes(beforeKeys, request.code.decls[i].name)}

\* no step before the diff step matched
DiffStepReached ==
    /\ ResolverReturned
    /\ \A k \in 1..3 : ~StepMatches(k, request.code, request.expectedFunctionName)

DiffBound == ResolverReturned /\ resolvedCallable.ok /\ resolvedCallable.via = 369

\* resolution went on with the steps after the diff step
WentOnToStepFive == resolvedCallable.via \in {391, 410, 428, 434}

\* C26 as it is stated: the diff step binds to a new top-level callable only
\* if there is exactly one; with none, or with two or more, it does not bind
\* and resolution goes on with step 5.  The code binds with two or more as
\* well: see C26_DiffStepBindsWhenAnyNew.
C26_DiffStepBindsOnlySingleNew ==
    /\ DiffBound => Cardinality(NewCallables) = 1
    /\ (DiffStepReached /\ Cardinality(NewCallables) # 1) => WentOnToStepFive

\* C26: the diff step binds to a new top-level callable only if there is at
\* least one, and then to one of them; with none it does not bind and
\* resolution goes on with step 5
C26_DiffStepBindsWhenAnyNew ==
    /\ DiffBound =>
          /\ NewCallables # {}
          /\ \E i \in NewCallables :
                resolvedCallable.solution = GlobalFn(request.code.decls[i].name)
    /\ (DiffStepReached /\ NewCallables = {}) => WentOnToStepFive
    /\ (DiffStepReached /\ NewCallables # {}) => DiffBound

\* the code left two new callables and the diff step bound one of them
C26_BoundWithTwoNew ==
    /\ DiffBound
    /\ Cardinality(NewCallables) = 2

(***************************************************************************)
(* Two runs of the same request: the resolver of                           *)
(* runJavascriptAgainstTestCases is run, and run again in a new context,   *)
(* over every program of at most MaxDecls declarations and over code       *)
(* whose top-level statements draw a random number.                        *)
(***************************************************************************)
RepeatPrograms ==
    ResolverPrograms
    \cup {JsCode(TRUE, <<Fn("assign", "none", "tally", <<>>, "top", "count"),
                         Fn("assign", "none", "score", <<"x">>, "top", "first")>>,
                 "random", "object", "none")}

InitRepeat ==
    /\ pc = "run"
    /\ \E code \in RepeatPrograms, expectedFunctionName \in ResolverNames :
          request = [code |-> code, testCases |-> <<>>, language |-> "javascript",
                     expectedFunctionName |-> expectedFunctionName, mode |-> "strict"]
    /\ host = "python"
    /\ resolvedCallable = NotResolved
    /\ calls = 0
    /\ signature = NoMatch
    /\ results = <<>>
    /\ verdict = NoVerdict
    /\ ops = NoOps
    /\ trace = <<>>
    /\ server = NoServer
    /\ probe = NoProbe

\* the same request is made again: what the first run resolved is kept aside
\* and the judge starts over
Again ==
    /\ pc \in {"javascript", "done"}
    /\ probe = NoProbe
    /\ probe' = [of |-> "runJavascriptAgainstTestCases",
                 resolvedCallable |-> resolvedCallable, created |-> ops.created]
    /\ pc' = "run"
    /\ resolvedCallable' = NotResolved
    /\ calls' = createContext
    /\ verdict' = NoVerdict
    /\ ops' = NoOps
    /\ UNCHANGED <<request, host, signature, results, trace, server>>

NextRepeat == JavascriptResolve \/ Again

SpecRepeat == InitRepeat /\ [][NextRepeat]_vars

(***************************************************************************)
(* Properties of two runs                                                  *)
(***************************************************************************)
\* the resolver has returned for the second time
RanTwice ==
    probe.of = "runJavascriptAgainstTestCases" /\ pc \in {"javascript", "done"}

\* both runs bound the same entry point with the same argNames and
\* fallbackArity, or both failed
SameBinding ==
    /\ resolvedCallable.ok = probe.resolvedCallable.ok
    /\ resolvedCallable.solution = probe.resolvedCallable.solution
    /\ resolvedCallable.argNames = probe.resolvedCallable.argNames
    /\ resolvedCallable.fallbackArity = probe.resolvedCallable.fallbackArity

\* where declaration d comes in the enumeration of the own property names of
\* globalThis: function declarations, then var names, then assigned globals,
\* each group in textual order
ObservedBefore(i, j) ==
    LET Group(d) == CASE d.form = "function" -> 1
                      [] d.form \in {"arrow", "fnexpr", "arrow1"} -> 2
                      [] OTHER -> 3
        di == request.code.decls[i]
        dj == request.code.decls[j]
    IN  Group(di) < Group(dj) \/ (Group(di) = Group(dj) /\ i < j)

\* the declarations whose function this run of the load left in a new own
\* property of globalThis
Observed ==
    {i \in 1..Len(request.code.decls) :
        /\ MakesGlobalFunction(request.code.decls[i])
        /\ request.code.decls[i].form # "proto"
        /\ Includes(ops.created, request.code.decls[i].name)}

\* the diff step bound the first newly observed callable
FirstObservedBound ==
    (resolvedCallable.ok /\ resolvedCallable.via = 369) =>
        \E i \in Observed :
            /\ \A j \in Observed \ {i} : ObservedBefore(i, j)
            /\ resolvedCallable.solution = GlobalFn(request.code.decls[i].name)

CarriesActual(result) == result.hasActual /\ result.actual # JSONstringify(Undefined)

\* C28: every CaseResult of every path of the judge carries exactly one of
\* actual and error, so a CaseResult with passed = true carries no error
C28_ExactlyOneOfActualAndError ==
    Returning =>
        \A i \in Cases(verdict) :
            /\ CarriesActual(verdict.results[i]) # verdict.results[i].hasError
            /\ verdict.results[i].passed => ~verdict.results[i].hasError

\* the entry point returned undefined in a case: the case completed, and its
\* CaseResult carries neither an actual value nor an error
C28_CompletedWithNeither ==
    /\ Returning /\ Strict /\ Javascript
    /\ \E i \in Cases(verdict) \cap DOMAIN trace :
          /\ trace[i].returned /\ trace[i].actualValue = Undefined
          /\ ~CarriesActual(verdict.results[i])
          /\ ~verdict.results[i].hasError
          /\ ~verdict.results[i].passed
    /\ verdict.status = "Wrong Answer"

\* what the code does keep: never both, and no error where passed = true
C28_NeverBothActualAndError ==
    Returning =>
        \A i \in Cases(verdict) :
            /\ ~(verdict.results[i].hasActual /\ verdict.results[i].hasError)
            /\ verdict.results[i].hasActual \/ verdict.results[i].hasError
            /\ verdict.results[i].passed => ~verdict.results[i].hasError

(***************************************************************************)
(* What one case leaves for the next                                       *)
(***************************************************************************)
\* the entry point counts its calls in a global of the code
Counts ==
    IF Javascript
    THEN /\ Len(request.code.decls) = 1 /\ request.code.decls[1].does = "count"
    ELSE /\ Len(request.code.defs) = 1 /\ request.code.defs[1].does = "count"

\* the calls of the entry point that returned before case i
ReturnedBefore(i) == Cardinality({j \in 1..(i - 1) : trace[j].returned})

\* C29: in a Strict JavaScript run the code is loaded once and every case
\* runs in the one context of the run, so a global written in case i is read
\* in every later case; in a Python run every case that reaches the runner
\* starts a process that runs the code again, so no case reads what an
\* earlier one wrote
C29_ContextSharedProcessFresh ==
    (Returning /\ Strict /\ trace # <<>>) =>
        /\ Javascript =>
              /\ ops.loads = 1
              /\ Counts => \A i \in DOMAIN trace :
                    trace[i].returned => trace[i].actualValue = Num(ReturnedBefore(i))
        /\ Python =>
              /\ \A i \in DOMAIN trace : trace[i].called => trace[i].spawns >= 1
              /\ Started # "none" =>
                    ops.loads = Cardinality({i \in DOMAIN trace : trace[i].called})
              /\ Counts => \A i \in DOMAIN trace :
                    trace[i].returned => trace[i].actualValue = Num(0)

\* two cases with the same input and the same expected output were run in one
\* JavaScript context: the first passed and the second, which read the count
\* the first had written, did not
C29_SecondCaseSawTheFirst ==
    /\ Returning /\ Strict /\ Javascript /\ Counts
    /\ Len(trace) = 2
    /\ request.testCases[1] = request.testCases[2]
    /\ trace[1].returned /\ trace[2].returned
    /\ verdict.results[1].passed /\ ~verdict.results[2].passed
    /\ verdict.results[2].actual = "1"

\* two cases with the same input were run by Python code that counts its
\* calls: each ran in a process of its own and both returned the first count
C29_SecondProcessStartedAfresh ==
    /\ Returning /\ Strict /\ Python /\ Counts
    /\ Len(trace) = 2
    /\ trace[1].returned /\ trace[2].returned
    /\ trace[1].spawns >= 1 /\ trace[2].spawns >= 1
    /\ verdict.results[1].actual = "0" /\ verdict.results[2].actual = "0"

(***************************************************************************)
(* The stored submissions                                                  *)
(***************************************************************************)
\* handler h answers in this step
Answers(h) == Handler(h).at # "done" /\ server'.handlers[h].at = "done"

\* in this step handler h, a submit request that was judged, stores a row and
\* answers 201; the rows stored before are left as they were
StoresRow(h) ==
    /\ Handler(h).route = "submit" /\ Handler(h).authenticated
    /\ Handler(h).at = "persisting"
    /\ Handler(h).lookup = "found" /\ Handler(h).runs = 1
    /\ Answers(h) /\ server'.handlers[h].code = 201
    /\ Len(server'.submissions) = Len(server.submissions) + 1
    /\ SubSeq(server'.submissions, 1, Len(server.submissions)) = server.submissions

SubmissionsStep ==
    /\ server'.submissions # server.submissions =>
          \E h \in DOMAIN server.handlers : StoresRow(h)
    /\ \A h \in DOMAIN server.handlers :
          (/\ Answers(h)
           /\ \/ Handler(h).route = "run"
              \/ server'.handlers[h].code \in {400, 401, 404, 500}) =>
              server'.submissions = server.submissions

\* C30: the stored submissions are left as they are by every run request,
\* whatever its outcome, and by every submit request answered 401, 400, 404
\* or 500; a row is stored only by a submit request that was judged and is
\* answered 201
C30_RowsOnlyFromAcceptedSubmit == [][SubmissionsStep]_vars

\* a run request was judged and answered 200, a submit request was judged,
\* its insert was rejected and it was answered 500, and no row is stored
C30_JudgedAndNothingStored ==
    /\ server.submissions = <<>>
    /\ \E h, k \in DOMAIN server.handlers :
          /\ Finished(h) /\ Handler(h).route = "run" /\ Handler(h).code = 200
          /\ Handler(h).runs = 1
          /\ Finished(k) /\ Handler(k).route = "submit" /\ Handler(k).code = 500
          /\ Handler(k).runs = 1 /\ Handler(k).persist = "rejected"

=============================================================================
